---------------------------- MODULE Spec2Model ----------------------------
(***************************************************************************)
(* A TLA+ model of WynnHelper: the budget / equip-order feasibility        *)
(* algebra (src/src/compat.js), the build solver (src/src/solver.js) with  *)
(* its /solve caller (src/src/api.js), the LRU response cache and the item *)
(* catalog loader (src/src/wynnDb.js) with the /compatible and /reload     *)
(* handlers (src/src/api.js).                                              *)
(*                                                                         *)
(* Skill vectors are 5-tuples indexed 1..5 here and 0..4 in the source:    *)
(* source index i is element i + 1.                                        *)
(***************************************************************************)
EXTENDS Integers, Sequences, FiniteSets, TLC

VARIABLES
  cItems, cBudget, cCap, cOut,     \* compat.js: the arguments of a call and its result
  cache,                           \* an LRUCache: [max, map], map in insertion order
  lruRet,                          \* what the last LRUCache.get returned
  lruUsed,                         \* history: the keys used since the last clear, by last use
  lruSetOrder,                     \* history: the keys set since the last clear, by last set
  sDb,                             \* solver: the catalog, [bySlot, byName]
  sOut,                            \* solver: the last solveBuild call or POST /solve request
  norm, lastLoadInfo,              \* WynnDb: the installed snapshot and its load info
  disk,                            \* the durable snapshot file .wynn_item_cache.json
  now, ticks,                      \* Date.now() and how often it advanced
  upstream,                        \* the catalog version the item API serves
  requests,                        \* the HTTP requests and where each handler stands
  respCache,                       \* api.js: the response cache of /compatible
  loadEv,                          \* history: the last completed #loadRaw
  srvOut,                          \* the last response sent: [status, body]
  kHeap, kOut,                     \* api.js stableKey: an object graph and the call's result
  lvl, lvlOut,                     \* compat.js skillBudgetFromLevel: a level and the result
  fItem, fCtx,                     \* the candidate filters: an item and a context
  fRaw,                            \* api.js: a strictWeaponClass value as a request carries it
  fOut,                            \* the result of the last filter or parse call
  ui,                              \* app.js: the page's state and its counters
  calls                            \* app.js: the apiJson calls made, each with its outcome

compatVars == <<cItems, cBudget, cCap, cOut>>
lruVars == <<cache, lruRet, lruUsed, lruSetOrder>>
solveVars == <<sDb, sOut>>
srvVars == <<norm, lastLoadInfo, disk, now, ticks, upstream, requests, respCache, loadEv,
             srvOut>>
keyVars == <<kHeap, kOut>>
lvlVars == <<lvl, lvlOut>>
filterVars == <<fItem, fCtx, fRaw, fOut>>
uiVars == <<ui, calls>>
vars == <<compatVars, lruVars, solveVars, srvVars, keyVars, lvlVars, filterVars, uiVars>>

(***************************************************************************)
(* Bounds of the model.                                                    *)
(***************************************************************************)
MaxItems == 3      \* longest item list handed to the compat.js functions
MaxBudget == 3     \* largest of the small skill point budgets of a compat.js call
WideBudget == 7    \* a budget that lets a round-robin fill go round twice
MaxCacheEntries == 2   \* largest capacity an LRUCache under test is built with
MaxSolveBudget == 1    \* largest skill point budget of a direct solveBuild call
DecoyCount == 2        \* helmets listed ahead of the needed one; also the small pool cap
MaxRequests == 2       \* HTTP requests of a server run
MaxTicks == 1          \* clock advances of a server run, half a minute each

(***************************************************************************)
(* Program constants.                                                      *)
(***************************************************************************)
DefaultPerSkillCap == 100
DefaultSolverPoolCap == 80         \* solver.js: ctx.poolCap ?? 80
DefaultSolverRingPoolCap == 120    \* solver.js: ctx.ringPoolCap ?? 120
RingSearchLimit == 90              \* solver.js: pool.slice(0, 90)
SkillLevelCap == 101               \* compat.js: Math.min(L, 101)
DefaultLevel == 106                \* api.js: fallback of body.level
DEFAULT_POOL_CAP == 80
DEFAULT_RING_POOL_CAP == 140
MAX_POOL_CAP == 250
MAX_RING_POOL_CAP == 320
DEFAULT_SOLVE_MAX_NODES == 200000
MAX_SOLVE_MAX_NODES == 2000000
MinPoolCap == 10                   \* api.js: min of poolCap and ringPoolCap
MinSolveMaxNodes == 1000           \* api.js: min of maxNodes
MsPerMinute == 60000               \* wynnDb.js: cached.ageMs / 60000
ResponseCacheMax == 250            \* api.js: new LRUCache(250)

(***************************************************************************)
(* Small helpers.                                                          *)
(***************************************************************************)
Max2(a, b) == IF a >= b THEN a ELSE b
Min2(a, b) == IF a <= b THEN a ELSE b
Pow2(n) == 2 ^ n
SumArr(a) == a[1] + a[2] + a[3] + a[4] + a[5]

\* The compat.js variables while no call was made.
NoCall == [op |-> "none"]
CompatParked ==
  /\ cItems = << >>
  /\ cBudget = 0
  /\ cCap = DefaultPerSkillCap
  /\ cOut = NoCall

\* The server variables while the server was not started.
SrvParked ==
  /\ norm = {}
  /\ lastLoadInfo = {}
  /\ disk = {}
  /\ now = 0
  /\ ticks = 0
  /\ upstream = 0
  /\ requests = << >>
  /\ respCache = [max |-> 0, map |-> << >>]
  /\ loadEv = NoCall
  /\ srvOut = [status |-> 0]

\* The solver variables while no catalog is loaded and nothing was asked.
EmptyDb == [bySlot |-> << >>, byName |-> << >>]
SolveParked ==
  /\ sDb = EmptyDb
  /\ sOut = NoCall

KeyParked == kHeap = << >> /\ kOut = NoCall
LevelParked == lvl = 0 /\ lvlOut = NoCall
FilterParked == fItem = << >> /\ fCtx = << >> /\ fRaw = << >> /\ fOut = NoCall
UiParked == ui = << >> /\ calls = {}

(***************************************************************************)
(* compat.js: vector algebra.                                              *)
(***************************************************************************)
emptyArr == <<0, 0, 0, 0, 0>>
addArr(a, b) == <<a[1] + b[1], a[2] + b[2], a[3] + b[3], a[4] + b[4], a[5] + b[5]>>
maxArr(a, b) == <<Max2(a[1], b[1]), Max2(a[2], b[2]), Max2(a[3], b[3]),
                  Max2(a[4], b[4]), Max2(a[5], b[5])>>
negSumArr(a) == Max2(0, 0 - a[1]) + Max2(0, 0 - a[2]) + Max2(0, 0 - a[3])
                  + Max2(0, 0 - a[4]) + Max2(0, 0 - a[5])
allNonNeg(a) == \A i \in 1..5 : a[i] >= 0

(***************************************************************************)
(* compat.js: canEquipItemNow.  The loop over the five skills, with its    *)
(* two early returns.                                                      *)
(***************************************************************************)
\* A variant that wants one point of the budget left over.
RECURSIVE canEquipLoop_Strict(_, _, _, _, _, _)
canEquipLoop_Strict(i, neededTotal, reqArr, curBonusArr, budget, perSkillCap) ==
  IF i >= 5 THEN neededTotal < budget
  ELSE LET need == Max2(0, reqArr[i + 1] - curBonusArr[i + 1])
       IN IF need > perSkillCap THEN FALSE
          ELSE IF neededTotal + need >= budget THEN FALSE
          ELSE canEquipLoop_Strict(i + 1, neededTotal + need, reqArr, curBonusArr,
                                   budget, perSkillCap)

RECURSIVE canEquipLoop(_, _, _, _, _, _)
canEquipLoop(i, neededTotal, reqArr, curBonusArr, budget, perSkillCap) ==
  IF i >= 5 THEN neededTotal <= budget
  ELSE LET need == Max2(0, reqArr[i + 1] - curBonusArr[i + 1])
       IN IF need > perSkillCap THEN FALSE
          ELSE IF neededTotal + need > budget THEN FALSE
          ELSE canEquipLoop(i + 1, neededTotal + need, reqArr, curBonusArr,
                            budget, perSkillCap)

\* A variant that forgets the per-skill cap.
canEquipItemNow_NoCap(reqArr, curBonusArr, budget, perSkillCap) ==
  canEquipLoop(0, 0, reqArr, curBonusArr, budget, budget + 1)

canEquipItemNow(reqArr, curBonusArr, budget, perSkillCap) ==
  canEquipLoop(0, 0, reqArr, curBonusArr, budget, perSkillCap)

(***************************************************************************)
(* compat.js: canEquipAllInSomeOrder.  Masks are the integers              *)
(* 0 .. 2^n - 1, bit i standing for items[i] (element i + 1 here).         *)
(***************************************************************************)
BitSet(mask, i) == (mask \div Pow2(i)) % 2 = 1

RECURSIVE LsbIndex(_, _)
LsbIndex(mask, i) == IF BitSet(mask, i) THEN i ELSE LsbIndex(mask, i + 1)

\* bonusSum[mask] of the source: bonusSum[mask ^ lsb] + bonuses[log2(lsb)].
RECURSIVE bonusSumOf(_, _)
bonusSumOf(bonuses, mask) ==
  IF mask = 0 THEN emptyArr
  ELSE LET i == LsbIndex(mask, 0)
       IN addArr(bonusSumOf(bonuses, mask - Pow2(i)), bonuses[i + 1])

\* One iteration of the outer loop: the body for one mask.
maskStep(mask, feasible, reqs, bonuses, budget, perSkillCap) ==
  IF mask \notin feasible THEN feasible
  ELSE LET curBonus == bonusSumOf(bonuses, mask)
           added == { mask + Pow2(i) : i \in { j \in 0..(Len(reqs) - 1) :
                        /\ ~BitSet(mask, j)
                        /\ canEquipItemNow(reqs[j + 1], curBonus, budget, perSkillCap) } }
       IN feasible \cup added

\* The outer loop for mask = lo .. hi - 1 in increasing order, split in halves
\* to keep the evaluation shallow; the first half is evaluated (the test on
\* it, never true as 0 stays feasible) before the second half starts.
RECURSIVE maskLoop(_, _, _, _, _, _, _)
maskLoop(lo, hi, feasible, reqs, bonuses, budget, perSkillCap) ==
  IF hi - lo = 1 THEN maskStep(lo, feasible, reqs, bonuses, budget, perSkillCap)
  ELSE LET mid == lo + ((hi - lo) \div 2)
           first == maskLoop(lo, mid, feasible, reqs, bonuses, budget, perSkillCap)
       IN IF first = {} THEN {}
          ELSE maskLoop(mid, hi, first, reqs, bonuses, budget, perSkillCap)

\* A variant that wears the items in list order only.
canEquipAllInSomeOrder_ListOrder(items, budget, perSkillCap) ==
  \A pos \in 1..Len(items) :
    canEquipItemNow(items[pos].reqArr,
                    bonusSumOf([k \in 1..Len(items) |-> items[k].bonusEffArr], Pow2(pos - 1) - 1),
                    budget, perSkillCap)

canEquipAllInSomeOrder(items, budget, perSkillCap) ==
  LET n == Len(items) IN
  IF n = 0 THEN TRUE
  ELSE LET reqs == [k \in 1..n |-> items[k].reqArr]
           bonuses == [k \in 1..n |-> items[k].bonusEffArr]
           feasible == maskLoop(0, Pow2(n), {0}, reqs, bonuses, budget, perSkillCap)
       IN (Pow2(n) - 1) \in feasible

(***************************************************************************)
(* compat.js: minFinalSpend, minAllocation, allocPresets.                  *)
(***************************************************************************)
RECURSIVE totalBonusOf(_, _)
totalBonusOf(items, k) ==
  IF k = 0 THEN emptyArr ELSE addArr(totalBonusOf(items, k - 1), items[k].bonusEffArr)

RECURSIVE maxReqOf(_, _)
maxReqOf(items, k) ==
  IF k = 0 THEN emptyArr ELSE maxArr(maxReqOf(items, k - 1), items[k].reqArr)

\* A variant that counts the losses of each item and none of the gains.
minFinalSpend_IgnoresGains(items) ==
  LET maxReq == maxReqOf(items, Len(items))
      lossOf == [ s \in 1..5 |->
                    SumArr([ j \in 1..5 |->
                               IF j <= Len(items) THEN Max2(0, 0 - items[j].bonusEffArr[s])
                               ELSE 0 ]) ]
  IN maxReq[1] + lossOf[1] + maxReq[2] + lossOf[2] + maxReq[3] + lossOf[3]
       + maxReq[4] + lossOf[4] + maxReq[5] + lossOf[5]

minFinalSpend(items) ==
  LET totalBonus == totalBonusOf(items, Len(items))
      maxReq == maxReqOf(items, Len(items))
  IN Max2(0, maxReq[1] - totalBonus[1]) + Max2(0, maxReq[2] - totalBonus[2])
       + Max2(0, maxReq[3] - totalBonus[3]) + Max2(0, maxReq[4] - totalBonus[4])
       + Max2(0, maxReq[5] - totalBonus[5])

minAllocation(items, perSkillCap) ==
  LET totalBonus == totalBonusOf(items, Len(items))
      maxReq == maxReqOf(items, Len(items))
  IN [i \in 1..5 |-> Min2(perSkillCap, Max2(0, maxReq[i] - totalBonus[i]))]

\* One pass "for (i = 0; i < 5 && rem > 0; i++)" of a round-robin fill.
RECURSIVE rrPass(_, _, _, _, _)
rrPass(i, a, rem, progressed, perSkillCap) ==
  IF i >= 5 \/ rem <= 0 THEN [a |-> a, rem |-> rem, progressed |-> progressed]
  ELSE IF a[i + 1] < perSkillCap
       THEN rrPass(i + 1, [a EXCEPT ![i + 1] = @ + 1], rem - 1, TRUE, perSkillCap)
       ELSE rrPass(i + 1, a, rem, progressed, perSkillCap)

\* "while (rem > 0) { pass; if (!progressed) break; }"
RECURSIVE rrFill(_, _, _)
rrFill(a, rem, perSkillCap) ==
  IF rem <= 0 THEN a
  ELSE LET p == rrPass(0, a, rem, FALSE, perSkillCap)
       IN IF ~p.progressed THEN p.a ELSE rrFill(p.a, p.rem, perSkillCap)

\* A variant that fills the chosen skill without looking at the cap.
RECURSIVE fillOne_NoCap(_, _, _, _)
fillOne_NoCap(a, r, idx, perSkillCap) ==
  IF r > 0
  THEN fillOne_NoCap([a EXCEPT ![idx + 1] = @ + 1], r - 1, idx, perSkillCap)
  ELSE [a |-> a, r |-> r]

\* "while (r > 0 && a[idx] < perSkillCap) { a[idx] += 1; r -= 1; }"
RECURSIVE fillOne(_, _, _, _)
fillOne(a, r, idx, perSkillCap) ==
  IF r > 0 /\ a[idx + 1] < perSkillCap
  THEN fillOne([a EXCEPT ![idx + 1] = @ + 1], r - 1, idx, perSkillCap)
  ELSE [a |-> a, r |-> r]

\* A variant that goes round-robin from the start.
prioritize_RoundRobinOnly(base, remaining, idx, perSkillCap) ==
  rrFill(base, remaining, perSkillCap)

prioritize(base, remaining, idx, perSkillCap) ==
  LET f == fillOne(base, remaining, idx, perSkillCap)
  IN rrFill(f.a, f.r, perSkillCap)

mkPreset(name, alloc) == [name |-> name, alloc |-> alloc, used |-> SumArr(alloc)]

allocPresets(items, budget, perSkillCap) ==
  LET base == minAllocation(items, perSkillCap)
      used == SumArr(base)
      remaining == Max2(0, budget - used)
  IN << mkPreset("Min spend", base),
        mkPreset("Balanced", rrFill(base, remaining, perSkillCap)),
        mkPreset("Prioritize STR", prioritize(base, remaining, 0, perSkillCap)),
        mkPreset("Prioritize DEX", prioritize(base, remaining, 1, perSkillCap)),
        mkPreset("Prioritize INT", prioritize(base, remaining, 2, perSkillCap)),
        mkPreset("Prioritize DEF", prioritize(base, remaining, 3, perSkillCap)),
        mkPreset("Prioritize AGI", prioritize(base, remaining, 4, perSkillCap)) >>

(***************************************************************************)
(* compat.js: computeBuildStats.                                           *)
(***************************************************************************)
\* A variant that asks for points to be left over before it tries the orders.
computeBuildStats_StrictGuard(items, budget, perSkillCap) ==
  LET finalSpend == minFinalSpend(items)
      remainingSP == budget - finalSpend
  IN [ finalSpend |-> finalSpend,
       remainingSP |-> remainingSP,
       equipOrderOk |-> IF remainingSP > 0
                        THEN canEquipAllInSomeOrder(items, budget, perSkillCap)
                        ELSE FALSE,
       allocs |-> IF remainingSP > 0 THEN allocPresets(items, budget, perSkillCap)
                  ELSE << >>,
       netBonus |-> totalBonusOf(items, Len(items)) ]

\* A variant that runs the equip-order check without the remainingSP guard.
computeBuildStats_NoGuard(items, budget, perSkillCap) ==
  [ finalSpend |-> minFinalSpend(items),
    remainingSP |-> budget - minFinalSpend(items),
    equipOrderOk |-> canEquipAllInSomeOrder(items, budget, perSkillCap),
    allocs |-> IF budget - minFinalSpend(items) >= 0
               THEN allocPresets(items, budget, perSkillCap) ELSE << >>,
    netBonus |-> totalBonusOf(items, Len(items)) ]

computeBuildStats(items, budget, perSkillCap) ==
  LET finalSpend == minFinalSpend(items)
      remainingSP == budget - finalSpend
  IN [ finalSpend |-> finalSpend,
       remainingSP |-> remainingSP,
       equipOrderOk |-> IF remainingSP >= 0
                        THEN canEquipAllInSomeOrder(items, budget, perSkillCap)
                        ELSE FALSE,
       allocs |-> IF remainingSP >= 0 THEN allocPresets(items, budget, perSkillCap)
                  ELSE << >>,
       netBonus |-> totalBonusOf(items, Len(items)) ]

(***************************************************************************)
(* Items.  mkItem builds a normalized item the way WynnDb.load does: the   *)
(* effective bonus of a weapon is the zero vector.                         *)
(***************************************************************************)
\* A variant that lets the display bonus of a weapon count.
mkItem_WeaponBonusCounts(name, slot, levelReq, reqArr, bonusArr) ==
  [ name |-> name, slot |-> slot, levelReq |-> levelReq, reqArr |-> reqArr,
    bonusArr |-> bonusArr, bonusEffArr |-> bonusArr,
    rarity |-> "Rare", identifier |-> TRUE, classReq |-> "", weaponType |-> "" ]

mkItem(name, slot, levelReq, reqArr, bonusArr) ==
  [ name |-> name, slot |-> slot, levelReq |-> levelReq, reqArr |-> reqArr,
    bonusArr |-> bonusArr,
    bonusEffArr |-> IF slot = "weapon" THEN emptyArr ELSE bonusArr,
    rarity |-> "Rare", identifier |-> TRUE, classReq |-> "", weaponType |-> "" ]

(***************************************************************************)
(* Optional values: JavaScript's null / undefined is the empty set, a      *)
(* present value v is {v}.  An absent string (classReq, weaponType, class) *)
(* is "", which is falsy like null.                                        *)
(***************************************************************************)
None == {}
Some(v) == {v}
IsSome(o) == o # {}
TheVal(o) == CHOOSE v \in o : TRUE
OrElse(o, d) == IF o = {} THEN d ELSE TheVal(o)     \* o ?? d

\* String.prototype.toLowerCase on the rarity and class names that occur.
toLowerCase(str) ==
  CASE str = "Mythic" -> "mythic"
    [] str = "MYTHIC" -> "mythic"
    [] str = "Rare" -> "rare"
    [] str = "Set" -> "set"
    [] str = "Warrior" -> "warrior"
    [] str = "MAGE" -> "mage"
    [] str = "Tome" -> "tome"
    [] OTHER -> str

(***************************************************************************)
(* solver.js: the candidate filter.                                        *)
(***************************************************************************)
\* A variant that knows no class.
weaponTypeForClass_None(cls) == ""

weaponTypeForClass(cls) ==
  CASE cls = "warrior" -> "spear"
    [] cls = "mage" -> "wand"
    [] cls = "archer" -> "bow"
    [] cls = "assassin" -> "dagger"
    [] cls = "shaman" -> "relik"
    [] OTHER -> ""

\* A variant that reads the effective bonus of every item, weapons included,
\* for mustGiveStat.
passesBaseFilters_EffOnly(it, ctx) ==
  IF it.levelReq > ctx.level THEN FALSE
  ELSE IF /\ ctx.class # ""
          /\ it.slot = "weapon" /\ ctx.strictWeaponClass
          /\ weaponTypeForClass(ctx.class) # "" /\ it.weaponType # ""
          /\ it.weaponType # weaponTypeForClass(ctx.class) THEN FALSE
  ELSE IF ctx.class # "" /\ it.classReq # "" /\ it.classReq # ctx.class THEN FALSE
  ELSE IF IsSome(ctx.minItemLevel) /\ it.levelReq < TheVal(ctx.minItemLevel) THEN FALSE
  ELSE IF ctx.noMythic /\ toLowerCase(it.rarity) = "mythic" THEN FALSE
  ELSE IF ctx.allowedRarities # {} /\ it.rarity \notin ctx.allowedRarities THEN FALSE
  ELSE IF ctx.noCraftedBestEffort /\ ~it.identifier THEN FALSE
  ELSE IF ctx.noNegativeItemSkillBonuses /\ (\E k \in 1..5 : it.bonusArr[k] < 0) THEN FALSE
  ELSE IF IsSome(ctx.mustGiveStat) /\ it.bonusEffArr[TheVal(ctx.mustGiveStat) + 1] <= 0
       THEN FALSE
  ELSE TRUE

passesBaseFilters(it, ctx) ==
  IF it.levelReq > ctx.level THEN FALSE
  ELSE IF /\ ctx.class # ""
          /\ it.slot = "weapon" /\ ctx.strictWeaponClass
          /\ weaponTypeForClass(ctx.class) # "" /\ it.weaponType # ""
          /\ it.weaponType # weaponTypeForClass(ctx.class) THEN FALSE
  ELSE IF ctx.class # "" /\ it.classReq # "" /\ it.classReq # ctx.class THEN FALSE
  ELSE IF IsSome(ctx.minItemLevel) /\ it.levelReq < TheVal(ctx.minItemLevel) THEN FALSE
  ELSE IF ctx.noMythic /\ toLowerCase(it.rarity) = "mythic" THEN FALSE
  ELSE IF ctx.allowedRarities # {} /\ it.rarity \notin ctx.allowedRarities THEN FALSE
  ELSE IF ctx.noCraftedBestEffort /\ ~it.identifier THEN FALSE
  ELSE IF ctx.noNegativeItemSkillBonuses /\ (\E k \in 1..5 : it.bonusArr[k] < 0) THEN FALSE
  ELSE IF /\ IsSome(ctx.mustGiveStat)
          /\ (IF it.slot = "weapon" THEN it.bonusArr[TheVal(ctx.mustGiveStat) + 1]
              ELSE it.bonusEffArr[TheVal(ctx.mustGiveStat) + 1]) <= 0 THEN FALSE
  ELSE TRUE

(***************************************************************************)
(* solver.js: solveBuild.                                                  *)
(***************************************************************************)
SolverSlots == <<"helmet", "chestplate", "leggings", "boots", "necklace", "bracelet", "weapon">>
LockKeys == {"helmet", "chestplate", "leggings", "boots", "necklace", "bracelet", "weapon",
             "ring1", "ring2"}

NamesOf(items) == { items[k].name : k \in 1..Len(items) }

\* The locked gear of slots SolverSlots[1..k], in that order.
RECURSIVE lockedGear(_, _)
lockedGear(locked, k) ==
  IF k = 0 THEN << >>
  ELSE lockedGear(locked, k - 1)
         \o (IF IsSome(locked[SolverSlots[k]]) THEN <<TheVal(locked[SolverSlots[k]])>> ELSE << >>)

\* The tomes whose name is not chosen yet, appended one by one.
RECURSIVE addTomes(_, _, _)
addTomes(items, tomes, k) ==
  IF k > Len(tomes) THEN items
  ELSE IF tomes[k].name \in NamesOf(items) THEN addTomes(items, tomes, k + 1)
  ELSE addTomes(Append(items, tomes[k]), tomes, k + 1)

\* A variant that leaves the locked rings out.
lockedItemsOf_NoRings(ctx) ==
  addTomes(lockedGear(ctx.lockedBySlot, Len(SolverSlots)), ctx.tomes, 1)

lockedItemsOf(ctx) ==
  LET locked == ctx.lockedBySlot
      gear == lockedGear(locked, Len(SolverSlots))
      r1 == IF IsSome(locked["ring1"]) THEN <<TheVal(locked["ring1"])>> ELSE << >>
      r2 == IF IsSome(locked["ring2"]) THEN <<TheVal(locked["ring2"])>> ELSE << >>
  IN addTomes(gear \o r1 \o r2, ctx.tomes, 1)

\* Array.prototype.slice(0, cap) for cap >= 0.
slice0(seq, cap) == SubSeq(seq, 1, Min2(cap, Len(seq)))

\* The filtered candidates of a slot, before the cap.
bySlotGet(db, slot) == IF slot \in DOMAIN db.bySlot THEN db.bySlot[slot] ELSE << >>

filteredOf(db, slot, chosenNames, ctx) ==
  SelectSeq(SelectSeq(bySlotGet(db, slot), LAMBDA it : it.name \notin chosenNames),
            LAMBDA it : passesBaseFilters(it, ctx))

poolOf(db, slot, chosenNames, ctx, cap) ==
  slice0(filteredOf(db, slot, chosenNames, ctx), cap)

\* The pools Map as a sequence of [slot, pool] entries in insertion order.
RECURSIVE gearPools(_, _, _, _)
gearPools(db, ctx, chosenNames, k) ==
  IF k = 0 THEN << >>
  ELSE gearPools(db, ctx, chosenNames, k - 1)
         \o (IF IsSome(ctx.lockedBySlot[SolverSlots[k]]) THEN << >>
             ELSE << [slot |-> SolverSlots[k],
                      pool |-> poolOf(db, SolverSlots[k], chosenNames, ctx,
                                      OrElse(ctx.poolCap, DefaultSolverPoolCap))] >>)

poolsOf(db, ctx) ==
  LET chosenNames == NamesOf(lockedItemsOf(ctx))
      gear == gearPools(db, ctx, chosenNames, Len(SolverSlots))
  IN IF IsSome(ctx.lockedBySlot["ring1"]) /\ IsSome(ctx.lockedBySlot["ring2"]) THEN gear
     ELSE Append(gear, [slot |-> "ring",
                        pool |-> poolOf(db, "ring", chosenNames, ctx,
                                        OrElse(ctx.ringPoolCap, DefaultSolverRingPoolCap))])

\* Array.prototype.sort by pool length; the sort is stable.
RECURSIVE insertByLen(_, _)
insertByLen(sorted, e) ==
  IF sorted = << >> THEN <<e>>
  ELSE IF Len(Head(sorted).pool) <= Len(e.pool) THEN <<Head(sorted)>> \o insertByLen(Tail(sorted), e)
  ELSE <<e>> \o sorted

RECURSIVE sortByLen(_, _)
sortByLen(entries, k) ==
  IF k = 0 THEN << >> ELSE insertByLen(sortByLen(entries, k - 1), entries[k])

slotsToFillOf(db, ctx) == sortByLen(poolsOf(db, ctx), Len(poolsOf(db, ctx)))

RECURSIVE negOf(_, _)
negOf(items, k) ==
  IF k = 0 THEN 0 ELSE negOf(items, k - 1) + negSumArr(items[k].bonusArr)

\* The score of a build whose statistics st are computeBuildStats(items, ...).
scoreOf(items, st) ==
  [ remaining |-> st.remainingSP, neg |-> negOf(items, Len(items)),
    finalSpend |-> st.finalSpend, equipOrderOk |-> st.equipOrderOk,
    netBonus |-> st.netBonus ]

scoreBuild(items, ctx) ==
  scoreOf(items, computeBuildStats(items, ctx.budget, DefaultPerSkillCap))

\* A variant that never reports a negative net bonus.
violatesNetNegative_Never(items, ctx) == FALSE

violatesNetNegative(items, ctx) ==
  IF ~ctx.noNegativeNetSkillBonuses THEN FALSE
  ELSE \E k \in 1..5 : totalBonusOf(items, Len(items))[k] < 0

\* JavaScript values the solver hands back.
JsNull == [type |-> "null"]
JsUndefined == [type |-> "undefined"]
BuildObj(items, score) == [type |-> "object", items |-> items, score |-> score]
IsBuild(v) == v.type = "object"

\* "if (!best) best = ...; else if (better) best = ..."
betterThan(sc, b) ==
  \/ sc.remaining > b.remaining
  \/ (sc.remaining = b.remaining /\ sc.neg < b.neg)
  \/ (sc.remaining = b.remaining /\ sc.neg = b.neg /\ sc.finalSpend < b.finalSpend)

\* The final validity test and the update of best at a complete assignment.
\* stNow is computeBuildStats(currentItems, ...); scoreBuild(currentItems)
\* computes the same statistics again, so sc is built from stNow.
leafOf(currentItems, stNow, best) ==
  IF stNow.remainingSP < 0 THEN best
  ELSE IF ~stNow.equipOrderOk THEN best
  ELSE LET sc == scoreOf(currentItems, stNow)
       IN IF sc.remaining < 0 THEN best
          ELSE IF ~IsBuild(best) THEN BuildObj(currentItems, sc)
          ELSE IF betterThan(sc, best.score) THEN BuildObj(currentItems, sc)
          ELSE best

\* rec(i, currentItems, usedNames) with the closure variable best threaded
\* through: each operator returns best as the code leaves it.  E holds what
\* the closure captures: ctx, slotsToFill (with the pools), ring1, ring2.
RECURSIVE rec(_, _, _, _, _)
RECURSIVE forCand(_, _, _, _, _, _, _)
RECURSIVE forCandRange(_, _, _, _, _, _, _, _)
RECURSIVE forRingA(_, _, _, _, _, _, _)
RECURSIVE forRingB(_, _, _, _, _, _, _)

\* stNow.finalSpend is minFinalSpend(currentItems); the other fields of
\* stNow are read at a complete assignment only.
rec(i, currentItems, usedNames, best, E) ==
  IF minFinalSpend(currentItems) > E.ctx.budget THEN best
  ELSE IF violatesNetNegative(currentItems, E.ctx) THEN best
  ELSE IF i = Len(E.slotsToFill)
       THEN leafOf(currentItems,
                   computeBuildStats(currentItems, E.ctx.budget, DefaultPerSkillCap), best)
  ELSE LET slot == E.slotsToFill[i + 1].slot
           pool == E.slotsToFill[i + 1].pool
           poolLimited == slice0(pool, RingSearchLimit)
       IN IF slot # "ring" THEN forCand(1, pool, i, currentItems, usedNames, best, E)
          ELSE IF ~E.needR1 /\ ~E.needR2 THEN rec(i + 1, currentItems, usedNames, best, E)
          ELSE IF E.needR1 /\ E.needR2
               THEN forRingA(1, poolLimited, i, currentItems, usedNames, best, E)
          ELSE forCand(1, poolLimited, i, currentItems, usedNames, best, E)

\* "for (const cand of pool)" over the candidates lo .. hi, in order: the
\* second half of the range starts from the best the first half left.
forCandRange(lo, hi, pool, i, currentItems, usedNames, best, E) ==
  IF lo > hi THEN best
  ELSE IF lo = hi
       THEN (IF pool[lo].name \in usedNames THEN best
             ELSE rec(i + 1, Append(currentItems, pool[lo]), usedNames \cup {pool[lo].name},
                      best, E))
  ELSE LET mid == (lo + hi) \div 2
       IN TheVal({ forCandRange(mid + 1, hi, pool, i, currentItems, usedNames, after, E) :
                   after \in {forCandRange(lo, mid, pool, i, currentItems, usedNames, best, E)} })

\* "for (const cand of pool)": candidates k .. Len(pool).
forCand(k, pool, i, currentItems, usedNames, best, E) ==
  forCandRange(k, Len(pool), pool, i, currentItems, usedNames, best, E)

\* "for (let a = 0; a < poolLimited.length; a++)": first rings a .. (1-based).
forRingA(a, poolLimited, i, currentItems, usedNames, best, E) ==
  IF a > Len(poolLimited) THEN best
  ELSE IF poolLimited[a].name \in usedNames
       THEN forRingA(a + 1, poolLimited, i, currentItems, usedNames, best, E)
  ELSE LET after == forRingB(a + 1, poolLimited, i, Append(currentItems, poolLimited[a]),
                             usedNames \cup {poolLimited[a].name}, best, E)
       IN forRingA(a + 1, poolLimited, i, currentItems, usedNames, after, E)

\* "for (let b = a + 1; b < poolLimited.length; b++)": second rings b ..
forRingB(b, poolLimited, i, currentItems, usedNames, best, E) ==
  IF b > Len(poolLimited) THEN best
  ELSE IF poolLimited[b].name \in usedNames
       THEN forRingB(b + 1, poolLimited, i, currentItems, usedNames, best, E)
  ELSE LET after == rec(i + 1, Append(currentItems, poolLimited[b]),
                        usedNames \cup {poolLimited[b].name}, best, E)
       IN forRingB(b + 1, poolLimited, i, currentItems, usedNames, after, E)

\* The closure is built once, before the search starts.
solveBuild(db, ctx) ==
  LET lockedItems == lockedItemsOf(ctx)
  IN TheVal({ rec(0, lockedItems, NamesOf(lockedItems), JsNull, E) :
              E \in {[ ctx |-> ctx, slotsToFill |-> slotsToFillOf(db, ctx),
                       needR1 |-> ~IsSome(ctx.lockedBySlot["ring1"]),
                       needR2 |-> ~IsSome(ctx.lockedBySlot["ring2"]) ]} })

(***************************************************************************)
(* wynnDb.js: LRUCache.  The Map is a sequence of [key, value] entries in  *)
(* insertion order: Map.delete removes the entry, Map.set of an absent key *)
(* appends one, keys().next().value is the first entry's key.              *)
(***************************************************************************)
RECURSIVE mapDelete(_, _)
mapDelete(map, key) ==
  IF map = << >> THEN << >>
  ELSE IF Head(map).key = key THEN Tail(map)
  ELSE <<Head(map)>> \o mapDelete(Tail(map), key)

mapHas(map, key) == \E i \in 1..Len(map) : map[i].key = key
mapGet(map, key) == map[CHOOSE i \in 1..Len(map) : map[i].key = key].value
mapKeys(map) == [i \in 1..Len(map) |-> map[i].key]

\* "while (this.map.size > this.max) delete the oldest"
RECURSIVE evictLoop(_, _)
evictLoop(map, max) ==
  IF Len(map) > max THEN evictLoop(mapDelete(map, Head(map).key), max) ELSE map

\* A variant of get that reads without refreshing the entry's recency.
LRUCache_get_NoRefresh(c, key) == c

\* The cache after get(key).
LRUCache_get(c, key) ==
  IF ~mapHas(c.map, key) THEN c
  ELSE [c EXCEPT !.map = Append(mapDelete(c.map, key),
                                [key |-> key, value |-> mapGet(c.map, key)])]

\* What get(key) returns: undefined (hit = FALSE) or the value.
LRUCache_getValue(c, key) ==
  IF ~mapHas(c.map, key) THEN [hit |-> FALSE]
  ELSE [hit |-> TRUE, value |-> mapGet(c.map, key)]

LRUCache_set(c, key, value) ==
  LET deleted == IF mapHas(c.map, key) THEN mapDelete(c.map, key) ELSE c.map
      added == Append(deleted, [key |-> key, value |-> value])
  IN [c EXCEPT !.map = evictLoop(added, c.max)]

LRUCache_clear(c) == [c EXCEPT !.map = << >>]

LRUCache_new(maxEntries) == [max |-> maxEntries, map |-> << >>]

(***************************************************************************)
(* An LRUCache under an arbitrary sequence of get, set and clear.          *)
(***************************************************************************)
LruKeys == {"k1", "k2", "k3"}
LruValues == {"v1", "v2"}
NoGet == [hit |-> FALSE]

\* seq without key, then key: key becomes the most recent one.
Touch(seq, key) == Append(SelectSeq(seq, LAMBDA x : x # key), key)

LruParked ==
  /\ cache = LRUCache_new(1)
  /\ lruRet = NoGet
  /\ lruUsed = << >>
  /\ lruSetOrder = << >>

LruInit ==
  /\ UiParked
  /\ cache \in { LRUCache_new(m) : m \in 1..MaxCacheEntries }
  /\ lruRet = NoGet
  /\ lruUsed = << >>
  /\ lruSetOrder = << >>
  /\ CompatParked
  /\ SolveParked
  /\ SrvParked
  /\ KeyParked
  /\ LevelParked
  /\ FilterParked

LruGet(key) ==
  /\ lruRet' = LRUCache_getValue(cache, key)
  /\ cache' = LRUCache_get(cache, key)
  /\ lruUsed' = IF mapHas(cache.map, key) THEN Touch(lruUsed, key) ELSE lruUsed
  /\ UNCHANGED <<lruSetOrder, compatVars, solveVars, srvVars, keyVars, lvlVars, filterVars, uiVars>>

LruSet(key, value) ==
  /\ cache' = LRUCache_set(cache, key, value)
  /\ lruUsed' = Touch(lruUsed, key)
  /\ lruSetOrder' = Touch(lruSetOrder, key)
  /\ UNCHANGED <<lruRet, compatVars, solveVars, srvVars, keyVars, lvlVars, filterVars, uiVars>>

LruClear ==
  /\ cache' = LRUCache_clear(cache)
  /\ lruUsed' = << >>
  /\ lruSetOrder' = << >>
  /\ UNCHANGED <<lruRet, compatVars, solveVars, srvVars, keyVars, lvlVars, filterVars, uiVars>>

LruNext ==
  \/ \E key \in LruKeys : LruGet(key)
  \/ \E key \in LruKeys, value \in LruValues : LruSet(key, value)
  \/ LruClear

SpecLRU == LruInit /\ [][LruNext]_vars

\* The last n elements of seq (all of it when it is shorter).
LastN(seq, n) ==
  IF Len(seq) <= n THEN seq ELSE SubSeq(seq, Len(seq) - n + 1, Len(seq))

Position(seq, key) == CHOOSE i \in 1..Len(seq) : seq[i] = key
InSeq(seq, key) == \E i \in 1..Len(seq) : seq[i] = key

\* C8: after any sequence of get, set and clear on a cache of capacity
\* max >= 1, the cache holds exactly the (at most max) most recently used
\* distinct keys set since the last clear, least recently used first, a get
\* hit and a set both counting as a use.
C8_LruHoldsMostRecent ==
  /\ cache.max >= 1
  /\ Len(cache.map) <= cache.max
  /\ mapKeys(cache.map) = LastN(lruUsed, cache.max)

\* C8 witness: a key that was set before a peer is still cached after an
\* overflow that evicted the peer, because it was read again in between.
C8_Witness ==
  \E a \in LruKeys, b \in LruKeys :
    /\ InSeq(lruSetOrder, a) /\ InSeq(lruSetOrder, b)
    /\ Position(lruSetOrder, a) < Position(lruSetOrder, b)
    /\ mapHas(cache.map, a)
    /\ ~mapHas(cache.map, b)
    /\ Len(cache.map) = cache.max


(***************************************************************************)
(* The compat.js calls: the arguments are drawn at the start, an action    *)
(* applies one exported function to them and records what it returned.     *)
(***************************************************************************)
CompatItems ==
  { mkItem("plain", "helmet", 1, emptyArr, emptyArr),
    mkItem("str2", "chestplate", 1, <<2, 0, 0, 0, 0>>, emptyArr),
    mkItem("dex2", "leggings", 1, <<0, 2, 0, 0, 0>>, emptyArr),
    mkItem("giveStr", "necklace", 1, emptyArr, <<2, 0, 0, 0, 0>>),
    mkItem("mixA", "bracelet", 1, <<1, 0, 0, 0, 1>>, <<0, -1, 0, 0, 0>>),
    mkItem("mixB", "ring", 1, <<0, 1, 0, 0, 0>>, <<-1, 0, 0, 0, 1>>) }

CompatLists == UNION { [1..n -> CompatItems] : n \in 0..MaxItems }
CapChoices == {1, DefaultPerSkillCap}
CompatBudgets == 0..MaxBudget \cup {WideBudget}

CompatInit ==
  /\ UiParked
  /\ cItems \in CompatLists
  /\ cBudget \in CompatBudgets
  /\ cCap \in CapChoices
  /\ cOut = NoCall
  /\ LruParked
  /\ SolveParked
  /\ SrvParked
  /\ KeyParked
  /\ LevelParked
  /\ FilterParked

CallCanEquipAllInSomeOrder ==
  /\ cOut' = [op |-> "canEquipAllInSomeOrder",
              value |-> canEquipAllInSomeOrder(cItems, cBudget, cCap)]
  /\ UNCHANGED <<cItems, cBudget, cCap, lruVars, solveVars, srvVars, keyVars, lvlVars, filterVars, uiVars>>

CallComputeBuildStats ==
  /\ cOut' = [op |-> "computeBuildStats",
              value |-> computeBuildStats(cItems, cBudget, cCap)]
  /\ UNCHANGED <<cItems, cBudget, cCap, lruVars, solveVars, srvVars, keyVars, lvlVars, filterVars, uiVars>>

CompatNext ==
  \/ CallCanEquipAllInSomeOrder
  \/ CallComputeBuildStats

SpecCompat == CompatInit /\ [][CompatNext]_vars

(***************************************************************************)
(* Equip orders, stated directly: a permutation p of 1..n is the order in  *)
(* which the items are put on.                                             *)
(***************************************************************************)
Perms(n) == { p \in [1..n -> 1..n] : \A i, j \in 1..n : i # j => p[i] # p[j] }

\* Skill k's effective bonus of the first pos items of the order.
RECURSIVE WornBonus(_, _, _, _)
WornBonus(items, p, pos, k) ==
  IF pos = 0 THEN 0
  ELSE items[p[pos]].bonusEffArr[k] + WornBonus(items, p, pos - 1, k)

Shortfall(items, p, pos, k) ==
  Max2(0, items[p[pos]].reqArr[k] - WornBonus(items, p, pos - 1, k))

StepNeed(items, p, pos) ==
  Shortfall(items, p, pos, 1) + Shortfall(items, p, pos, 2) + Shortfall(items, p, pos, 3)
    + Shortfall(items, p, pos, 4) + Shortfall(items, p, pos, 5)

RECURSIVE CumulativeNeed(_, _, _)
CumulativeNeed(items, p, pos) ==
  IF pos = 0 THEN 0 ELSE StepNeed(items, p, pos) + CumulativeNeed(items, p, pos - 1)

CapRespected(items, p, cap) ==
  \A pos \in 1..Len(items) : \A k \in 1..5 : Shortfall(items, p, pos, k) <= cap

\* Every step's own need fits the budget.
OrderOkPerStep(items, budget, cap) ==
  \E p \in Perms(Len(items)) :
    /\ CapRespected(items, p, cap)
    /\ \A pos \in 1..Len(items) : StepNeed(items, p, pos) <= budget

\* The shortfalls of all steps so far, added up, fit the budget.
OrderOkCumulative(items, budget, cap) ==
  \E p \in Perms(Len(items)) :
    /\ CapRespected(items, p, cap)
    /\ \A pos \in 1..Len(items) : CumulativeNeed(items, p, pos) <= budget

CanEquipReturned == cOut.op = "canEquipAllInSomeOrder"
StatsReturned == cOut.op = "computeBuildStats"

ZeroBonuses(items) == \A k \in 1..Len(items) : items[k].bonusEffArr = emptyArr
CombinedReq(items) == SumArr(items[1].reqArr) + SumArr(items[2].reqArr)
ItemAloneFits(it, budget, cap) ==
  /\ SumArr(it.reqArr) <= budget
  /\ \A k \in 1..5 : it.reqArr[k] <= cap

Absent == [t |-> "undefined"]
Null == [t |-> "null"]
Bool(b) == [t |-> "boolean", b |-> b]
Num(n) == [t |-> "number", n |-> n]
Str(str) == [t |-> "string", s |-> str]

\* Number(value) for the values above: NaN is None.
toNumber(value) ==
  CASE value.t = "number" -> Some(value.n)
    [] value.t = "null" -> Some(0)
    [] value.t = "boolean" -> Some(IF value.b THEN 1 ELSE 0)
    [] value.t = "string" ->
         (CASE value.s = "" -> Some(0) [] value.s = "0" -> Some(0)
            [] value.s = "1" -> Some(1) [] value.s = "2" -> Some(2)
            [] OTHER -> None)
    [] OTHER -> None

\* String.prototype.trim then toLowerCase on the flag spellings that occur.
trimLower(str) ==
  CASE str = " true " -> "true"
    [] str = "TRUE" -> "true"
    [] str = "True" -> "true"
    [] str = "FALSE" -> "false"
    [] str = " 1" -> "1"
    [] OTHER -> toLowerCase(str)

parseBool(value, fallback) ==
  IF value.t \in {"undefined", "null"} THEN fallback
  ELSE IF value.t = "boolean" THEN value.b
  ELSE IF value.t = "number"
       THEN (IF value.n = 1 THEN TRUE ELSE IF value.n = 0 THEN FALSE ELSE fallback)
  ELSE IF value.t = "string"
       THEN (IF trimLower(value.s) \in {"true", "1"} THEN TRUE
             ELSE IF trimLower(value.s) \in {"false", "0"} THEN FALSE
             ELSE fallback)
  ELSE fallback

\* parseSafeNumber(value, {fallback, min, max}); max is None when not given.
parseSafeNumber(value, fallback, min, max) ==
  LET finite == OrElse(toNumber(value), fallback)
      lower == Max2(min, finite)
  IN IF IsSome(max) THEN Min2(TheVal(max), lower) ELSE lower

\* A variant without the cap at level 101.
skillBudgetFromLevel_NoCap(level) == 2 * (Max2(1, level) - 1)

\* compat.js skillBudgetFromLevel on an integer level.
skillBudgetFromLevel(level) == 2 * (Min2(Max2(1, level), SkillLevelCap) - 1)

\* JS numbers as levels: halves / 2 for a finite one, so that levels between
\* two integers are among them.
LevelNum(halves) == [t |-> "num", halves |-> halves]
LevelInfinity == [t |-> "Infinity", halves |-> 0]
LevelNegInfinity == [t |-> "-Infinity", halves |-> 0]
LevelNaN == [t |-> "NaN", halves |-> 0]

\* compat.js skillBudgetFromLevel on any number: "level || 1" replaces 0 and
\* NaN by 1, Math.floor rounds down, Math.max(1, -Infinity) is 1 and
\* Math.min(Infinity, 101) is 101.
skillBudgetFromNumber(level) ==
  CASE level.t = "NaN" -> skillBudgetFromLevel(1)
    [] level.t = "Infinity" -> 2 * (SkillLevelCap - 1)
    [] level.t = "-Infinity" -> 2 * (1 - 1)
    [] OTHER -> IF level.halves = 0 THEN skillBudgetFromLevel(1)
                ELSE skillBudgetFromLevel(level.halves \div 2)

\* SKI[name]: undefined for an unknown name.
SKI(name) ==
  CASE name = "strength" -> Some(0) [] name = "dexterity" -> Some(1)
    [] name = "intelligence" -> Some(2) [] name = "defence" -> Some(3)
    [] name = "agility" -> Some(4) [] OTHER -> None

byNameGet(d, name) == IF name \in DOMAIN d.byName THEN Some(d.byName[name]) ELSE None

(***************************************************************************)
(* api.js: POST /solve, from the parsed body to the response.              *)
(***************************************************************************)
\* lockedBySlot: the selected item of every locked key that the catalog knows.
solveLocked(d, body) ==
  [ key \in LockKeys |->
      IF ~body.locks[key] THEN None
      ELSE IF body.selected[key] = "" THEN None
      ELSE byNameGet(d, body.selected[key]) ]

RECURSIVE solveTomes(_, _, _)
solveTomes(d, names, k) ==
  IF k = 0 THEN << >>
  ELSE LET it == byNameGet(d, names[k])
       IN solveTomes(d, names, k - 1)
            \o (IF IsSome(it) /\ TheVal(it).slot = "tome" THEN <<TheVal(it)>> ELSE << >>)

solveCtx(d, body) ==
  LET level == parseSafeNumber(body.level, DefaultLevel, 1, None)
      extraPoints == parseSafeNumber(body.extraPoints, 0, 0, None)
  IN [ level |-> level,
       class |-> toLowerCase(body.class),
       strictWeaponClass |-> parseBool(body.strictWeaponClass, TRUE),
       budget |-> skillBudgetFromLevel(level) + extraPoints,
       allowedRarities |-> body.rarities,
       minItemLevel |-> IF body.minItemLevel.t \in {"undefined", "null"} THEN None
                        ELSE Some(parseSafeNumber(body.minItemLevel, 0, 0, None)),
       noMythic |-> parseBool(body.noMythic, FALSE),
       noCraftedBestEffort |-> parseBool(body.noCraftedBestEffort, FALSE),
       noNegativeItemSkillBonuses |-> parseBool(body.noNegativeItemSkillBonuses, FALSE),
       noNegativeNetSkillBonuses |-> parseBool(body.noNegativeNetSkillBonuses, FALSE),
       mustGiveStat |-> IF body.mustGiveStat = "" THEN None ELSE SKI(body.mustGiveStat),
       lockedBySlot |-> solveLocked(d, body),
       tomes |-> solveTomes(d, body.tomes, Len(body.tomes)),
       poolCap |-> Some(parseSafeNumber(body.poolCap, DEFAULT_POOL_CAP, MinPoolCap,
                                        Some(MAX_POOL_CAP))),
       ringPoolCap |-> Some(parseSafeNumber(body.ringPoolCap, DEFAULT_RING_POOL_CAP, MinPoolCap,
                                            Some(MAX_RING_POOL_CAP))),
       maxNodes |-> Some(parseSafeNumber(body.maxNodes, DEFAULT_SOLVE_MAX_NODES,
                                         MinSolveMaxNodes, Some(MAX_SOLVE_MAX_NODES))) ]

\* Reading a property of a JavaScript object: undefined when it has none.
propBest(obj) == IF "best" \in DOMAIN obj THEN obj.best ELSE JsUndefined
propTruncated(obj) == IF "truncated" \in DOMAIN obj THEN obj.truncated ELSE JsUndefined
propNodesVisited(obj) == IF "nodesVisited" \in DOMAIN obj THEN obj.nodesVisited ELSE JsUndefined
Truthy(v) == v.type \notin {"null", "undefined"}

RECURSIVE itemSummaries(_, _)
itemSummaries(items, k) ==
  IF k = 0 THEN << >>
  ELSE Append(itemSummaries(items, k - 1),
              [ name |-> items[k].name, slot |-> items[k].slot,
                rarity |-> items[k].rarity, levelReq |-> items[k].levelReq ])

\* "const { best, truncated, nodesVisited } = solveResult" and the answer.
\* Destructuring null throws a TypeError.
solveRespond(solveResult, ctx) ==
  IF solveResult.type \in {"null", "undefined"}
  THEN [ kind |-> "throw", error |-> "TypeError" ]
  ELSE LET best == propBest(solveResult)
       IN IF ~Truthy(best)
          THEN [ kind |-> "json", ok |-> TRUE, found |-> FALSE,
                 truncated |-> propTruncated(solveResult),
                 nodesVisited |-> propNodesVisited(solveResult),
                 maxNodes |-> TheVal(ctx.maxNodes) ]
          ELSE [ kind |-> "json", ok |-> TRUE, found |-> TRUE,
                 truncated |-> propTruncated(solveResult),
                 nodesVisited |-> propNodesVisited(solveResult),
                 maxNodes |-> TheVal(ctx.maxNodes),
                 score |-> best.score,
                 items |-> itemSummaries(best.items, Len(best.items)) ]


(***************************************************************************)
(* The solver specification.  The catalog is what WynnDb.load builds: the  *)
(* items of a slot sorted by name.  It holds DecoyCount helmets that give  *)
(* strength and cost dexterity, listed ahead of one helmet that gives      *)
(* strength only (the shape of test/solveBuild.test.js, scaled down).      *)
(***************************************************************************)
Zero5 == <<0, 0, 0, 0, 0>>
DecoyNames == <<"decoy-helmet-0", "decoy-helmet-1", "decoy-helmet-2", "decoy-helmet-3">>
decoyHelmet(k) == mkItem(DecoyNames[k], "helmet", 2, Zero5, <<1, -1, 0, 0, 0>>)
neededHelmet == mkItem("needed-helmet", "helmet", 1, Zero5, <<4, 0, 0, 0, 0>>)
plainHelmet == mkItem("plain-helmet", "helmet", 1, Zero5, Zero5)
chestPlain == mkItem("chest-plain", "chestplate", 1, Zero5, Zero5)
chestReq == mkItem("chest-req", "chestplate", 1, <<2, 0, 0, 0, 0>>, Zero5)
plainOf(slot) == mkItem("plain-" \o slot, slot, 1, Zero5, Zero5)
ringA == mkItem("ring-a", "ring", 1, Zero5, Zero5)
ringB == mkItem("ring-b", "ring", 1, Zero5, <<0, 0, 1, 0, 0>>)
ringC == mkItem("ring-c", "ring", 1, Zero5, <<0, -1, 0, 0, 0>>)
tomeStr == mkItem("tome-str", "tome", 1, Zero5, <<1, 0, 0, 0, 0>>)

Decoys == [k \in 1..DecoyCount |-> decoyHelmet(k)]

\* The helmet lists of the catalogs, each sorted by name.
HelmetLists == { Decoys \o <<neededHelmet>>, <<neededHelmet, plainHelmet>> }

SeqToSet(seq) == { seq[k] : k \in 1..Len(seq) }

mkDb(helmets) ==
  LET bySlot == [ slot \in {"helmet", "chestplate", "leggings", "boots", "necklace",
                            "bracelet", "weapon", "ring", "tome"} |->
                    CASE slot = "helmet" -> helmets
                      [] slot = "chestplate" -> <<chestPlain, chestReq>>
                      [] slot = "ring" -> <<ringA, ringB, ringC>>
                      [] slot = "tome" -> <<tomeStr>>
                      [] OTHER -> <<plainOf(slot)>> ]
      items == UNION { SeqToSet(bySlot[slot]) : slot \in DOMAIN bySlot }
  IN [ bySlot |-> bySlot,
       byName |-> [ name \in { it.name : it \in items } |->
                      CHOOSE it \in items : it.name = name ] ]

\* Which keys are locked, and with which item.
lockOf(key) ==
  CASE key = "helmet" -> neededHelmet
    [] key = "chestplate" -> chestPlain
    [] key = "ring1" -> ringA
    [] key = "ring2" -> ringB
    [] OTHER -> plainOf(key)

lockAll(unlocked) == [ key \in LockKeys |-> IF key \in unlocked THEN None ELSE Some(lockOf(key)) ]

\* The locked keys and the tomes of a direct call.
LockChoices ==
  { [locked |-> lockAll({"helmet"}), tomes |-> << >>],
    [locked |-> [lockAll({"helmet"}) EXCEPT !["chestplate"] = Some(chestReq)],
     tomes |-> <<tomeStr>>],
    [locked |-> lockAll({"helmet", "chestplate"}), tomes |-> << >>],
    [locked |-> lockAll({"helmet", "ring1", "ring2"}), tomes |-> << >>],
    [locked |-> lockAll({"helmet", "ring2"}), tomes |-> <<tomeStr>>] }

\* The contexts of direct solveBuild calls.
SolveContexts ==
  { [ level |-> 2, class |-> "", strictWeaponClass |-> TRUE, budget |-> budget,
      allowedRarities |-> {}, minItemLevel |-> None, noMythic |-> FALSE,
      noCraftedBestEffort |-> FALSE, noNegativeItemSkillBonuses |-> FALSE,
      noNegativeNetSkillBonuses |-> noNeg, mustGiveStat |-> must,
      lockedBySlot |-> lock.locked, tomes |-> lock.tomes, poolCap |-> cap,
      ringPoolCap |-> None, maxNodes |-> None ] :
    budget \in 0..MaxSolveBudget, noNeg \in BOOLEAN, must \in {None, Some(0)},
    lock \in LockChoices, cap \in {Some(DecoyCount), None} }

\* The bodies of POST /solve requests.
selectAll == [ key \in LockKeys |-> lockOf(key).name ]
locksAll(unlocked) == [ key \in LockKeys |-> key \notin unlocked ]

SolveBodies ==
  { [ level |-> points.level, extraPoints |-> points.extra, class |-> "",
      strictWeaponClass |-> Absent,
      rarities |-> {}, minItemLevel |-> Absent, noMythic |-> Absent,
      noCraftedBestEffort |-> Absent, noNegativeItemSkillBonuses |-> Absent,
      noNegativeNetSkillBonuses |-> noNeg, mustGiveStat |-> must,
      poolCap |-> Absent, ringPoolCap |-> Absent, maxNodes |-> Absent,
      selected |-> selected, locks |-> locksAll(unlocked), tomes |-> tomes ] :
    points \in { [level |-> Num(1), extra |-> Absent], [level |-> Num(2), extra |-> Absent],
                 [level |-> Num(1), extra |-> Num(1)] },
    noNeg \in {Absent, Bool(TRUE)}, must \in {"", "strength"},
    selected \in {selectAll, [selectAll EXCEPT !["chestplate"] = "chest-req"]},
    unlocked \in {{"helmet"}},
    tomes \in {<<"tome-str", "plain-boots">>} }

SolveInit ==
  /\ UiParked
  /\ sDb \in { mkDb(helmets) : helmets \in HelmetLists }
  /\ sOut = NoCall
  /\ CompatParked
  /\ LruParked
  /\ SrvParked
  /\ KeyParked
  /\ LevelParked
  /\ FilterParked

\* A direct call solveBuild(db, ctx), as the test makes it.
CallSolveBuild ==
  \E ctx \in SolveContexts :
    /\ sOut = NoCall
    /\ sOut' = [ op |-> "solveBuild", ctx |-> ctx, ret |-> solveBuild(sDb, ctx) ]
    /\ UNCHANGED <<sDb, compatVars, lruVars, srvVars, keyVars, lvlVars, filterVars, uiVars>>

\* POST /solve on a loaded catalog.
PostSolve ==
  \E body \in SolveBodies :
    LET ctx == solveCtx(sDb, body)
        solveResult == solveBuild(sDb, ctx)
    IN /\ sOut = NoCall
       /\ sOut' = [ op |-> "POST /solve", body |-> body, ctx |-> ctx, ret |-> solveResult,
                    res |-> solveRespond(solveResult, ctx) ]
       /\ UNCHANGED <<sDb, compatVars, lruVars, srvVars, keyVars, lvlVars, filterVars, uiVars>>

SolveNext == CallSolveBuild \/ PostSolve

SpecSolve == SolveInit /\ [][SolveNext]_vars


(***************************************************************************)
(* What a solver call was asked and what it handed back.                   *)
(***************************************************************************)
Solved == sOut.op \in {"solveBuild", "POST /solve"}
HelmetsOf(db) == bySlotGet(db, "helmet")
ChosenOf(ctx, items) == SubSeq(items, Len(lockedItemsOf(ctx)) + 1, Len(items))

\* Every complete assignment over the capped pools: the locked items and
\* tomes, one candidate per unfilled gear slot, and the needed rings.
RECURSIVE completeFrom(_, _, _, _)
completeFrom(entries, k, items, ctx) ==
  IF k > Len(entries) THEN {items}
  ELSE LET free == { c \in SeqToSet(entries[k].pool) : c.name \notin NamesOf(items) }
           needed == (IF IsSome(ctx.lockedBySlot["ring1"]) THEN 0 ELSE 1)
                       + (IF IsSome(ctx.lockedBySlot["ring2"]) THEN 0 ELSE 1)
       IN IF entries[k].slot = "ring" /\ needed = 2
          THEN UNION { completeFrom(entries, k + 1, items \o <<pair[1], pair[2]>>, ctx) :
                       pair \in { p \in free \X free : p[1].name # p[2].name } }
          ELSE UNION { completeFrom(entries, k + 1, Append(items, c), ctx) : c \in free }

CompleteAssignments(db, ctx) == completeFrom(poolsOf(db, ctx), 1, lockedItemsOf(ctx), ctx)

Accepted(items, ctx) ==
  /\ ctx.budget - minFinalSpend(items) >= 0
  /\ canEquipAllInSomeOrder(items, ctx.budget, DefaultPerSkillCap)

AcceptedScores(db, ctx) ==
  { scoreBuild(items, ctx) : items \in { a \in CompleteAssignments(db, ctx) : Accepted(a, ctx) } }

\* C3 (as the claim states it): with noNegativeNetSkillBonuses off, the build
\* solveBuild returns is the best by (remainingSP up, negative display bonus
\* down, finalSpend down) among all accepted complete assignments over the
\* capped pools, and it returns no build only if there is none.
C3_AsClaimed ==
  (Solved /\ ~sOut.ctx.noNegativeNetSkillBonuses) =>
     IF IsBuild(sOut.ret)
     THEN \A sc \in AcceptedScores(sDb, sOut.ctx) : ~betterThan(sc, sOut.ret.score)
     ELSE \A a \in CompleteAssignments(sDb, sOut.ctx) : ~Accepted(a, sOut.ctx)

\* C4: a returned build holds every locked item and every tome, exactly one
\* candidate of the pool of each unlocked gear slot, each passing the
\* candidate filter; it leaves remainingSP >= 0, can be equipped in some
\* order, and has no negative net bonus when noNegativeNetSkillBonuses is set.
C4_ReturnedBuildValid ==
  (Solved /\ IsBuild(sOut.ret)) =>
     LET ctx == sOut.ctx
         items == sOut.ret.items
         chosen == ChosenOf(ctx, items)
         chosenNames == NamesOf(lockedItemsOf(ctx))
     IN /\ \A key \in LockKeys :
             IsSome(ctx.lockedBySlot[key]) => TheVal(ctx.lockedBySlot[key]) \in SeqToSet(items)
        /\ \A k \in 1..Len(ctx.tomes) : ctx.tomes[k] \in SeqToSet(items)
        /\ \A k \in 1..Len(SolverSlots) :
             ~IsSome(ctx.lockedBySlot[SolverSlots[k]]) =>
                /\ Cardinality({ j \in 1..Len(chosen) : chosen[j].slot = SolverSlots[k] }) = 1
                /\ \A j \in 1..Len(chosen) :
                     chosen[j].slot = SolverSlots[k] =>
                        /\ chosen[j] \in SeqToSet(poolOf(sDb, SolverSlots[k], chosenNames, ctx,
                                                         OrElse(ctx.poolCap, DefaultSolverPoolCap)))
                        /\ passesBaseFilters(chosen[j], ctx)
        /\ ctx.budget - minFinalSpend(items) >= 0
        /\ canEquipAllInSomeOrder(items, ctx.budget, DefaultPerSkillCap)
        /\ ctx.noNegativeNetSkillBonuses =>
             \A k \in 1..5 : totalBonusOf(items, Len(items))[k] >= 0

\* A build was returned for a call with a locked requirement, a tome, the
\* helmet slot open, the net-bonus rule on, and a pool that held a candidate
\* the rule rejects.
C4_Witness ==
  /\ sOut.op = "solveBuild"
  /\ IsBuild(sOut.ret)
  /\ sOut.ctx.noNegativeNetSkillBonuses
  /\ sOut.ctx.tomes # << >>
  /\ sOut.ctx.lockedBySlot["chestplate"] = Some(chestReq)
  /\ ~IsSome(sOut.ctx.lockedBySlot["helmet"])
  /\ decoyHelmet(1) \in SeqToSet(poolOf(sDb, "helmet", NamesOf(lockedItemsOf(sOut.ctx)), sOut.ctx,
                                        OrElse(sOut.ctx.poolCap, DefaultSolverPoolCap)))
  /\ neededHelmet \in SeqToSet(sOut.ret.items)

\* C5 (as the claim states it): solveBuild hands back an object with the
\* fields best, truncated and nodesVisited.
C5_AsClaimed ==
  sOut.op = "solveBuild" =>
     /\ sOut.ret.type = "object"
     /\ {"best", "truncated", "nodesVisited"} \subseteq DOMAIN sOut.ret

\* C6 (as the claim states it): when the filtered helmet list is longer than
\* poolCap and the only helmet that completes an accepted build sits beyond
\* index poolCap, the result's best is a build that contains that helmet.
C6_AsClaimed ==
  (/\ sOut.op = "solveBuild"
   /\ LockKeys \ {"helmet"} = { key \in LockKeys : IsSome(sOut.ctx.lockedBySlot[key]) }
   /\ IsSome(sOut.ctx.poolCap)) =>
     LET ctx == sOut.ctx
         lockedItems == lockedItemsOf(ctx)
         filtered == filteredOf(sDb, "helmet", NamesOf(lockedItems), ctx)
         ok(c) == /\ ~violatesNetNegative(Append(lockedItems, c), ctx)
                  /\ Accepted(Append(lockedItems, c), ctx)
     IN \A k \in 1..Len(filtered) :
          (/\ k > TheVal(ctx.poolCap)
           /\ ok(filtered[k])
           /\ \A j \in 1..Len(filtered) : j # k => ~ok(filtered[j]))
          => /\ IsBuild(propBest(sOut.ret))
             /\ filtered[k] \in SeqToSet(propBest(sOut.ret).items)

\* C7 (as the claim states it): POST /solve consumes what solveBuild returns
\* without throwing, answers found=false when solveBuild accepted nothing and
\* found=true with the build's items when it accepted a build.
C7_AsClaimed ==
  sOut.op = "POST /solve" =>
     /\ sOut.res.kind = "json"
     /\ IF IsBuild(sOut.ret)
        THEN /\ sOut.res.found
             /\ sOut.res.items = itemSummaries(sOut.ret.items, Len(sOut.ret.items))
        ELSE ~sOut.res.found


(***************************************************************************)
(* wynnDb.js: WynnDb.load and #loadRaw.  A catalog payload is its version  *)
(* number.  The snapshot file is absent ({}) or [raw, mtime, readable];    *)
(* an unreadable file makes readCache return null.                         *)
(***************************************************************************)
TTL_MS == 55 * 60 * 1000

\* Math.round(a / b) for b > 0: the nearest integer, halves rounded up.
roundDiv(a, b) == (2 * a + b) \div (2 * b)

NoWarning == [kind |-> "null"]
WriteFailedWarning == [kind |-> "text", text |-> "Live data loaded but cache write failed."]
StaleWarning(ageMins) ==
  [kind |-> "text", text |-> "Live DB fetch failed; using cached data (${ageMins}m old).",
   ageMins |-> ageMins]

readCache(file, time) ==
  IF file = {} THEN None
  ELSE IF ~TheVal(file).readable THEN None
  ELSE Some([raw |-> TheVal(file).raw, ageMs |-> time - TheVal(file).mtime])

\* "if (!force) { cached = readCache(); if (cached && cached.ageMs < TTL_MS) ..."
cacheIsFresh(force, file, time) ==
  /\ ~force
  /\ IsSome(readCache(file, time))
  /\ TheVal(readCache(file, time)).ageMs < TTL_MS

freshResult(file, time) ==
  [ ok |-> TRUE, raw |-> TheVal(readCache(file, time)).raw,
    loadInfo |-> [degraded |-> FALSE, warning |-> NoWarning, source |-> "cache:fresh"] ]

liveResult(json, written) ==
  [ ok |-> TRUE, raw |-> json,
    loadInfo |-> IF written
                 THEN [degraded |-> FALSE, warning |-> NoWarning, source |-> "live"]
                 ELSE [degraded |-> TRUE, warning |-> WriteFailedWarning, source |-> "live"] ]

\* A variant of the catch block that trusts the snapshot file only while it
\* is younger than the TTL.
fallbackOf_FreshOnly(file, time) ==
  LET cached == readCache(file, time)
  IN IF IsSome(cached) /\ TheVal(cached).ageMs < TTL_MS
     THEN [ ok |-> TRUE, raw |-> TheVal(cached).raw,
            loadInfo |-> [ degraded |-> TRUE,
                           warning |-> StaleWarning(roundDiv(TheVal(cached).ageMs, MsPerMinute)),
                           source |-> "cache:stale-fallback" ] ]
     ELSE [ ok |-> FALSE ]

\* A variant of the catch block that hands back an empty catalog when it has
\* no snapshot file to fall back to.
fallbackOf_EmptyDefault(file, time) ==
  LET cached == readCache(file, time)
  IN IF IsSome(cached)
     THEN [ ok |-> TRUE, raw |-> TheVal(cached).raw,
            loadInfo |-> [ degraded |-> TRUE,
                           warning |-> StaleWarning(roundDiv(TheVal(cached).ageMs, MsPerMinute)),
                           source |-> "cache:stale-fallback" ] ]
     ELSE [ ok |-> TRUE, raw |-> 0,
            loadInfo |-> [degraded |-> TRUE, warning |-> NoWarning, source |-> "unknown"] ]

\* The catch block of #loadRaw: the snapshot file if readable, else rethrow.
fallbackOf(file, time) ==
  LET cached == readCache(file, time)
  IN IF IsSome(cached)
     THEN [ ok |-> TRUE, raw |-> TheVal(cached).raw,
            loadInfo |-> [ degraded |-> TRUE,
                           warning |-> StaleWarning(roundDiv(TheVal(cached).ageMs, MsPerMinute)),
                           source |-> "cache:stale-fallback" ] ]
     ELSE [ ok |-> FALSE ]

(***************************************************************************)
(* wynnDb.js: the catalog load builds from a payload.  A payload is the    *)
(* list Object.entries(raw) of the item API's answer: item name and item   *)
(* object; "" stands for a property the object does not have.  The record  *)
(* load builds per item is cut down to the fields the indexes use.         *)
(***************************************************************************)
rawEntry(name, type, armourType, accessoryType, weaponType, subType, rarity) ==
  [ name |-> name, type |-> type, armourType |-> armourType,
    accessoryType |-> accessoryType, weaponType |-> weaponType, subType |-> subType,
    rarity |-> rarity ]

\* str.includes("tome"), on the type and subType strings of the payloads.
includesTome(str) == str \in {"tome", "guild tome"}

\* null is "".
slotFromItem(it) ==
  IF it.type = "armour" /\ it.armourType # "" THEN it.armourType
  ELSE IF it.type \in {"accessory", "accessories"} /\ it.accessoryType # "" THEN it.accessoryType
  ELSE IF it.type = "weapon" /\ it.weaponType # "" THEN "weapon"
  ELSE IF includesTome(toLowerCase(it.type)) \/ includesTome(toLowerCase(it.subType))
       THEN "tome"
  ELSE ""

\* Map.set: a key the map has keeps its place.
mapSet(map, key, value) ==
  IF mapHas(map, key)
  THEN [i \in 1..Len(map) |-> IF map[i].key = key THEN [key |-> key, value |-> value] ELSE map[i]]
  ELSE Append(map, [key |-> key, value |-> value])

\* "if (!m.has(k)) m.set(k, []); m.get(k).push(n);"
mapPush(map, key, n) ==
  mapSet(map, key, Append(IF mapHas(map, key) THEN mapGet(map, key) ELSE << >>, n))

\* a.name.localeCompare(b.name) on the item names of the payloads, and the
\* code-unit order of Array.prototype.sort on their rarities.
NameOrder == <<"Apex Helm", "Band", "Guild Lore", "Lore", "Oak Bow", "Odd Cap", "Pebble", "Zeal Helm">>
RarityOrder == <<"fabled", "mythic", "rare", "unknown">>

sortByName(arr) ==
  [ i \in 1..Len(arr) |->
      CHOOSE e \in SeqToSet(arr) :
        Cardinality({ x \in SeqToSet(arr) :
                        Position(NameOrder, x.name) < Position(NameOrder, e.name) }) = i - 1 ]

sortedRarities(set) ==
  [ i \in 1..Cardinality(set) |->
      CHOOSE r \in set :
        Cardinality({ x \in set : Position(RarityOrder, x) < Position(RarityOrder, r) }) = i - 1 ]

emptyBuild ==
  [ items |-> << >>, byName |-> << >>, bySlot |-> << >>, byRarity |-> << >>, rarities |-> {} ]

\* "for (const [name, it] of Object.entries(raw)) { ... }"
RECURSIVE loadLoop(_, _, _)
loadLoop(entries, i, acc) ==
  IF i > Len(entries) THEN acc
  ELSE LET it == entries[i]
           slot == slotFromItem(it)
           rarity == IF it.rarity = "" THEN "unknown" ELSE it.rarity
           n == [ name |-> it.name, lowerName |-> toLowerCase(it.name), type |-> it.type,
                  slot |-> slot, rarity |-> rarity ]
       IN IF slot = "" THEN loadLoop(entries, i + 1, acc)
          ELSE loadLoop(entries, i + 1,
                        [ items |-> Append(acc.items, n),
                          byName |-> mapSet(acc.byName, it.name, n),
                          bySlot |-> mapPush(acc.bySlot, slot, n),
                          byRarity |-> mapPush(acc.byRarity, rarity, n),
                          rarities |-> acc.rarities \cup {rarity} ])

\* The payloads the item API serves, by catalog version.  Every entry is an
\* object; entries that are no gear and no tome are in them.
Payload0 ==
  << rawEntry("Zeal Helm", "armour", "helmet", "", "", "", "rare"),
     rawEntry("Pebble", "ingredient", "", "", "", "", "rare"),
     rawEntry("Apex Helm", "armour", "helmet", "", "", "", ""),
     rawEntry("Band", "accessory", "", "ring", "", "", "rare") >>
Payload1 ==
  << rawEntry("Oak Bow", "weapon", "", "", "bow", "", "rare"),
     rawEntry("Apex Helm", "armour", "helmet", "", "", "", "mythic"),
     rawEntry("Lore", "Tome", "", "", "", "", "fabled") >>
Payload2 ==
  << rawEntry("Odd Cap", "armour", "", "", "", "", "rare"),
     rawEntry("Guild Lore", "misc", "", "", "", "guild tome", ""),
     rawEntry("Band", "accessories", "", "ring", "", "", "mythic") >>
payloadOf(version) ==
  CASE version % 3 = 0 -> Payload0
    [] version % 3 = 1 -> Payload1
    [] OTHER -> Payload2

\* A variant of load that installs the snapshot before its loop has run.
normOf_InstallFirst(res) ==
  [ raw |-> res.raw,
    items |-> loadLoop(payloadOf(res.raw), 1, emptyBuild).items,
    byName |-> << >>, bySlot |-> << >>, byRarity |-> << >>, rarities |-> << >>,
    dataState |-> [ degraded |-> res.loadInfo.degraded, warning |-> res.loadInfo.warning,
                    source |-> res.loadInfo.source ] ]

\* this.norm as load builds it from raw and loadInfo; raw is the version of
\* the payload the snapshot was built from.
normOf(res) ==
  LET b == loadLoop(payloadOf(res.raw), 1, emptyBuild)
  IN [ raw |-> res.raw,
       items |-> b.items,
       byName |-> b.byName,
       bySlot |-> [ i \in 1..Len(b.bySlot) |->
                      [key |-> b.bySlot[i].key, value |-> sortByName(b.bySlot[i].value)] ],
       byRarity |-> b.byRarity,
       rarities |-> sortedRarities(b.rarities),
       dataState |-> [ degraded |-> res.loadInfo.degraded, warning |-> res.loadInfo.warning,
                       source |-> res.loadInfo.source ] ]

(***************************************************************************)
(* api.js: what a handler does once ensureDbData handed it the catalog d,  *)
(* up to its response.  A /compatible response is a function of the cache  *)
(* key and of d; it embeds d.dataState.                                    *)
(***************************************************************************)
compatibleResponse(key, d) ==
  [ type |-> "compatible", key |-> key, raw |-> d.raw, dataState |-> d.dataState ]

handlerAfter(kind, key, d, c) ==
  CASE kind = "compatible" ->
         (IF LRUCache_getValue(c, key).hit
          THEN [ cache |-> LRUCache_get(c, key),
                 out |-> [status |-> 200, body |-> LRUCache_getValue(c, key).value] ]
          ELSE [ cache |-> LRUCache_set(c, key, compatibleResponse(key, d)),
                 out |-> [status |-> 200, body |-> compatibleResponse(key, d)] ])
    [] kind = "reload" ->
         [ cache |-> LRUCache_clear(c), out |-> [status |-> 200, body |-> [type |-> "ok"]] ]
    [] OTHER ->
         [ cache |-> c,
           out |-> [ status |-> 200,
                     body |-> [type |-> "health", raw |-> d.raw, dataState |-> d.dataState] ] ]

dataUnavailable == [status |-> 503, body |-> [type |-> "DATA_UNAVAILABLE"]]

(***************************************************************************)
(* The server: requests arrive while others wait for the item API.  A step *)
(* runs a handler from one real wait (fetch, res.json) to the next.        *)
(***************************************************************************)
SrvKeys == {"q1", "q2"}
\* The requests that arrive: their route and, for /compatible, the cache key.
SrvArrivals ==
  { [kind |-> "compatible", key |-> key] : key \in SrvKeys }
    \cup { [kind |-> "health", key |-> ""], [kind |-> "reload", key |-> ""] }
NoOut == [status |-> 0]
IdleRequest == [pc |-> "idle", kind |-> "", key |-> "", json |-> 0]
DoneRequest == [pc |-> "done", kind |-> "", key |-> "", json |-> 0]

TickMs == MsPerMinute \div 2
\* When the server starts, the snapshot file of an earlier run, if any, is
\* half a minute short of the TTL.
StartTime == TTL_MS - TickMs
StartDisks == { {}, {[raw |-> 0, mtime |-> 0, readable |-> TRUE]},
                {[raw |-> 0, mtime |-> 0, readable |-> FALSE]} }

SrvInit ==
  /\ UiParked
  /\ norm = {}
  /\ lastLoadInfo = {}
  /\ disk \in StartDisks
  /\ now = StartTime
  /\ ticks = 0
  /\ upstream = 0
  /\ requests = [p \in 1..MaxRequests |-> IdleRequest]
  /\ respCache = LRUCache_new(ResponseCacheMax)
  /\ loadEv = NoCall
  /\ srvOut = NoOut
  /\ CompatParked
  /\ LruParked
  /\ SolveParked
  /\ KeyParked
  /\ LevelParked
  /\ FilterParked

\* load() of request p settles with res; the handler runs on to its response.
LoadDone(p, kind, key, res, ev) ==
  /\ loadEv' = ev
  /\ IF res.ok
     THEN /\ norm' = Some(normOf(res))
          /\ lastLoadInfo' = Some(res.loadInfo)
          /\ respCache' = handlerAfter(kind, key, normOf(res), respCache).cache
          /\ srvOut' = handlerAfter(kind, key, normOf(res), respCache).out
     ELSE /\ srvOut' = dataUnavailable
          /\ UNCHANGED <<norm, lastLoadInfo, respCache, uiVars>>
  /\ requests' = [requests EXCEPT ![p] = DoneRequest]

loadEvent(force, fetch, res) ==
  [ op |-> "loadRaw", force |-> force, fetch |-> fetch, disk |-> disk, now |-> now,
    ok |-> res.ok ]

\* A request arrives: its handler runs up to the fetch, or to the end when
\* the catalog is installed already or the snapshot file is fresh.
Arrive(p, kind, key) ==
  /\ requests[p].pc = "idle"
  /\ IF p = 1 THEN TRUE ELSE requests[p - 1].pc # "idle"
  /\ IF kind # "reload" /\ IsSome(norm)
     THEN /\ respCache' = handlerAfter(kind, key, TheVal(norm), respCache).cache
          /\ srvOut' = handlerAfter(kind, key, TheVal(norm), respCache).out
          /\ requests' = [requests EXCEPT ![p] = DoneRequest]
          /\ UNCHANGED <<norm, lastLoadInfo, loadEv, uiVars>>
     ELSE IF cacheIsFresh(kind = "reload", disk, now)
     THEN LoadDone(p, kind, key, freshResult(disk, now),
                   loadEvent(FALSE, "none", freshResult(disk, now)))
     ELSE /\ requests' = [requests EXCEPT ![p] =
                            [pc |-> "fetching", kind |-> kind, key |-> key, json |-> 0]]
          /\ UNCHANGED <<norm, lastLoadInfo, respCache, loadEv, srvOut, uiVars>>
  /\ UNCHANGED <<disk, now, ticks, upstream, compatVars, lruVars, solveVars, keyVars, lvlVars, filterVars, uiVars>>

\* The fetch of request p settles: with a response whose status is OK, with
\* another status, or with a network error.
FetchSettled(p, outcome) ==
  /\ requests[p].pc = "fetching"
  /\ IF outcome = "ok"
     THEN /\ requests' = [requests EXCEPT ![p] = [@ EXCEPT !.pc = "parsing", !.json = upstream]]
          /\ UNCHANGED <<norm, lastLoadInfo, respCache, loadEv, srvOut, uiVars>>
     ELSE LoadDone(p, requests[p].kind, requests[p].key, fallbackOf(disk, now),
                   loadEvent(requests[p].kind = "reload", outcome, fallbackOf(disk, now)))
  /\ UNCHANGED <<disk, now, ticks, upstream, compatVars, lruVars, solveVars, keyVars, lvlVars, filterVars, uiVars>>

\* res.json() of request p settles.  A parsed payload is written to the
\* snapshot file; a failed write leaves the file as it was or unreadable.
JsonSettled(p, outcome) ==
  /\ requests[p].pc = "parsing"
  /\ IF outcome = "bad-json"
     THEN /\ LoadDone(p, requests[p].kind, requests[p].key, fallbackOf(disk, now),
                      loadEvent(requests[p].kind = "reload", outcome, fallbackOf(disk, now)))
          /\ UNCHANGED disk
     ELSE /\ LoadDone(p, requests[p].kind, requests[p].key,
                      liveResult(requests[p].json, outcome = "written"),
                      loadEvent(requests[p].kind = "reload", "ok",
                                liveResult(requests[p].json, outcome = "written")))
          /\ disk' = CASE outcome = "written" ->
                            {[raw |-> requests[p].json, mtime |-> now, readable |-> TRUE]}
                       [] outcome = "write-failed-truncated" /\ disk # {} ->
                            {[TheVal(disk) EXCEPT !.readable = FALSE]}
                       [] OTHER -> disk
  /\ UNCHANGED <<now, ticks, upstream, compatVars, lruVars, solveVars, keyVars, lvlVars, filterVars, uiVars>>

\* Half a minute passes; the item API may publish a new catalog version.
Tick(publish) ==
  /\ ticks < MaxTicks
  /\ now' = now + TickMs
  /\ ticks' = ticks + 1
  /\ upstream' = IF publish THEN upstream + 1 ELSE upstream
  /\ UNCHANGED <<norm, lastLoadInfo, disk, requests, respCache, loadEv, srvOut,
                 compatVars, lruVars, solveVars, keyVars, lvlVars, filterVars, uiVars>>

SrvNext ==
  \/ \E p \in 1..MaxRequests, a \in SrvArrivals : Arrive(p, a.kind, a.key)
  \/ \E p \in 1..MaxRequests, outcome \in {"ok", "http-error", "network-error"} :
       FetchSettled(p, outcome)
  \/ \E p \in 1..MaxRequests,
        outcome \in {"written", "write-failed", "write-failed-truncated", "bad-json"} :
       JsonSettled(p, outcome)
  \/ \E publish \in BOOLEAN : Tick(publish)

SpecSrv == SrvInit /\ [][SrvNext]_vars

\* C9 (as the claim states it): every response held in the response cache
\* was computed from the snapshot that is installed.
C9_AsClaimed ==
  \A i \in 1..Len(respCache.map) :
     /\ IsSome(norm)
     /\ respCache.map[i].value.raw = TheVal(norm).raw
     /\ respCache.map[i].value.dataState = TheVal(norm).dataState

\* C10: when the live fetch failed (network error or a status that is not OK)
\* and the snapshot file was readable, load succeeded and installed the
\* file's payload, degraded, from cache:stale-fallback, with a warning that
\* names the file's age to the nearest minute, forced or not, at any age.
C10_StaleFallback ==
  (/\ loadEv.op = "loadRaw"
   /\ loadEv.fetch \in {"network-error", "http-error"}
   /\ loadEv.disk # {}
   /\ TheVal(loadEv.disk).readable) =>
     /\ loadEv.ok
     /\ IsSome(norm)
     /\ TheVal(norm).raw = TheVal(loadEv.disk).raw
     /\ TheVal(norm).dataState.degraded
     /\ TheVal(norm).dataState.source = "cache:stale-fallback"
     /\ TheVal(norm).dataState.warning.kind = "text"
     /\ "ageMins" \in DOMAIN TheVal(norm).dataState.warning
     /\ LET ageMs == loadEv.now - TheVal(loadEv.disk).mtime
            ageMins == TheVal(norm).dataState.warning.ageMins
        IN /\ 2 * (ageMs - ageMins * MsPerMinute) < MsPerMinute
           /\ 2 * (ageMins * MsPerMinute - ageMs) <= MsPerMinute
     /\ lastLoadInfo = Some([ degraded |-> TRUE, warning |-> TheVal(norm).dataState.warning,
                              source |-> "cache:stale-fallback" ])

\* A forced load fell back to a snapshot file as old as the TTL, whose age
\* in minutes is rounded.
C10_Witness ==
  /\ loadEv.op = "loadRaw"
  /\ loadEv.force
  /\ loadEv.fetch = "http-error"
  /\ loadEv.disk # {}
  /\ TheVal(loadEv.disk).readable
  /\ loadEv.now - TheVal(loadEv.disk).mtime >= TTL_MS
  /\ loadEv.ok
  /\ IsSome(norm)
  /\ TheVal(norm).dataState.source = "cache:stale-fallback"


(***************************************************************************)
(* Steps of a server run, told apart by what they change.                  *)
(***************************************************************************)
\* Request p leaves its wait for the item API and is answered.
Settles(p) == requests[p].pc \in {"fetching", "parsing"} /\ requests'[p].pc = "done"
\* Request p arrives.
Arrives(p) == requests[p].pc = "idle" /\ requests'[p].pc # "idle"
FetchFailures == {"network-error", "http-error", "bad-json"}

\* C11: when the live fetch failed and no readable snapshot file exists, the
\* load fails: nothing is installed, the installed snapshot, its load info and
\* the response cache stay as they were, and the request is answered 503
\* DATA_UNAVAILABLE; while no snapshot is installed, the next request that
\* needs one starts a load again.
C11_FailedLoad ==
  [][ /\ \A p \in 1..MaxRequests :
           (/\ Settles(p)
            /\ loadEv'.fetch \in FetchFailures
            /\ readCache(disk, now) = None)
           => /\ ~loadEv'.ok
              /\ norm' = norm
              /\ lastLoadInfo' = lastLoadInfo
              /\ respCache' = respCache
              /\ srvOut' = dataUnavailable
      /\ \A p \in 1..MaxRequests :
           (/\ Arrives(p)
            /\ norm = {}
            /\ loadEv.op = "loadRaw"
            /\ ~loadEv.ok)
           => \/ requests'[p].pc = "fetching"
              \/ (loadEv'.op = "loadRaw" /\ loadEv'.fetch = "none" /\ loadEv'.ok)
    ]_vars

\* A forced reload failed for want of a readable snapshot file while a
\* snapshot was installed and a response was cached: both are still there.
C11_Witness ==
  /\ loadEv.op = "loadRaw"
  /\ loadEv.force
  /\ loadEv.fetch \in FetchFailures
  /\ readCache(loadEv.disk, loadEv.now) = None
  /\ ~loadEv.ok
  /\ srvOut = dataUnavailable
  /\ IsSome(norm)
  /\ Len(respCache.map) > 0


\* The file a successful write of request p's payload leaves behind.
WrittenFile(p) == {[raw |-> requests[p].json, mtime |-> now, readable |-> TRUE]}

\* C12 (as the claim states it): when the payload was fetched and parsed but
\* writing the snapshot file failed, the load succeeds and installs the
\* fetched payload, degraded, from source live, with the cache-write warning,
\* and the snapshot file is the one that was there before.
C12_AsClaimed ==
  [][ \A p \in 1..MaxRequests :
        (/\ Settles(p)
         /\ requests[p].pc = "parsing"
         /\ loadEv'.fetch = "ok"
         /\ disk' # WrittenFile(p))
        => /\ loadEv'.ok
           /\ IsSome(norm')
           /\ TheVal(norm').raw = requests[p].json
           /\ TheVal(norm').dataState =
                [degraded |-> TRUE, warning |-> WriteFailedWarning, source |-> "live"]
           /\ disk' = disk
    ]_vars


\* A request that is answered in the step in which it arrives: its load did
\* not wait for the item API.
AnsweredOnArrival(p) == Arrives(p) /\ requests'[p].pc = "done"

\* C13 (as the claim states it): a load that returns without a fetch is not
\* forced, finds a readable snapshot file younger than the TTL, and its
\* result is marked source cache:fresh and not degraded; every other load
\* goes on to the fetch.
C13_AsClaimed ==
  [][ \A p \in 1..MaxRequests :
        /\ AnsweredOnArrival(p)
             => /\ srvOut'.body.type # "ok"
                /\ cacheIsFresh(FALSE, disk, now)
                /\ lastLoadInfo' = Some(freshResult(disk, now).loadInfo)
        /\ (Arrives(p) /\ ~AnsweredOnArrival(p)) => requests'[p].pc = "fetching"
    ]_vars


\* The entries of a payload that load keeps: the ones slotFromItem gives a slot.
gearNames(entries) == { entries[i].name : i \in { j \in 1..Len(entries) : slotFromItem(entries[j]) # "" } }

\* A snapshot is whole: its items are the gear of the payload it was built
\* from, and each of them is the byName entry of its name and a member of the
\* bySlot group of its slot and of the byRarity group of its rarity.
SnapshotWhole(d) ==
  /\ { d.items[i].name : i \in 1..Len(d.items) } = gearNames(payloadOf(d.raw))
  /\ Len(d.items) = Cardinality(gearNames(payloadOf(d.raw)))
  /\ \A i \in 1..Len(d.items) :
       LET x == d.items[i]
       IN /\ mapHas(d.byName, x.name) /\ mapGet(d.byName, x.name) = x
          /\ mapHas(d.bySlot, x.slot) /\ InSeq(mapGet(d.bySlot, x.slot), x)
          /\ mapHas(d.byRarity, x.rarity) /\ InSeq(mapGet(d.byRarity, x.rarity), x)

\* C14: in every step, with any number of loads waiting for the item API,
\* db.norm is null or a whole snapshot before and after the step; the
\* snapshot changes only in the step in which a request's load finishes, to
\* a whole snapshot, so while a load waits the snapshot installed before it
\* stays in place unchanged.
C14_SnapshotWhole ==
  [][ /\ norm = {} \/ SnapshotWhole(TheVal(norm))
      /\ norm' = {} \/ SnapshotWhole(TheVal(norm'))
      /\ norm' # norm =>
           /\ IsSome(norm')
           /\ \E p \in 1..MaxRequests : requests[p].pc # "done" /\ requests'[p].pc = "done"
    ]_vars

\* A whole snapshot with two helmets is installed while another load, which
\* fetched a different payload, is between its fetch and its build.
C14_Witness ==
  /\ IsSome(norm)
  /\ mapHas(TheVal(norm).bySlot, "helmet")
  /\ Len(mapGet(TheVal(norm).bySlot, "helmet")) = 2
  /\ Len(TheVal(norm).items) < Len(payloadOf(TheVal(norm).raw))
  /\ \E p \in 1..MaxRequests :
       requests[p].pc = "parsing" /\ requests[p].json # TheVal(norm).raw


(***************************************************************************)
(* api.js stableKey.  The argument is an object graph: a heap of nodes,    *)
(* node 1 being the argument itself.  A node is an object or an array; its *)
(* props are its properties in insertion order (for an array: its elements,*)
(* key "").  A property value is a number or a reference to a node, so a   *)
(* graph can share nodes and can be cyclic.  The fingerprint is the        *)
(* sequence of the tokens of the JSON text.                                *)
(***************************************************************************)
MaxKeyNodes == 2
MaxArrayLen == 1

KeyNum(n) == [t |-> "num", n |-> n, ref |-> 0]
KeyRef(a) == [t |-> "ref", n |-> 0, ref |-> a]
KeyProp(key, val) == [key |-> key, val |-> val]

\* Object.keys(v).sort(): the order of UTF-16 code units.
KeyOrder == <<"a", "b">>

\* A variant of the replacer that copies the properties in the order it
\* finds them.
sortKeys_AsIs(props) == props

\* The replacer's "Object.keys(v).sort().reduce((acc, kk) => (acc[kk] = v[kk],
\* acc), {})": the properties of a new object, in sorted order.
sortKeys(props) ==
  [ i \in 1..Len(props) |->
      CHOOSE e \in SeqToSet(props) :
        Cardinality({ x \in SeqToSet(props) :
                        Position(KeyOrder, x.key) < Position(KeyOrder, e.key) }) = i - 1 ]

\* QuoteJSONString on the keys.
quoteKey(key) == IF key = "a" THEN "\"a\"" ELSE "\"b\""

KeyStr(toks, seen) == [tag |-> "string", toks |-> toks, seen |-> seen]
KeyUndefined(seen) == [tag |-> "undefined", toks |-> << >>, seen |-> seen]
KeyThrow(seen) == [tag |-> "TypeError", toks |-> << >>, seen |-> seen]

\* JSON.stringify(obj, replacer): SerializeJSONProperty with the replacer of
\* stableKey applied to each value first.  seen is the replacer's Set; stack
\* holds the values JSON.stringify is inside of, which it refuses to enter
\* again ("Converting circular structure to JSON").  The replacer hands an
\* array on as it is and an object as a new object, which is on no stack.
RECURSIVE serValue(_, _, _, _), serProps(_, _, _, _, _, _), serElems(_, _, _, _, _, _)
serValue(heap, val, seen, stack) ==
  IF val.t = "num" THEN KeyStr(<<ToString(val.n)>>, seen)
  ELSE IF val.ref \in seen THEN KeyUndefined(seen)
  ELSE IF heap[val.ref].kind = "array"
       THEN IF val.ref \in stack THEN KeyThrow(seen)
            ELSE serElems(heap, heap[val.ref].props, 1, seen \cup {val.ref},
                          stack \cup {val.ref}, <<"[">>)
  ELSE serProps(heap, sortKeys(heap[val.ref].props), 1, seen \cup {val.ref}, stack, <<"{">>)

\* SerializeJSONObject: a property whose value is undefined is left out.
serProps(heap, props, i, seen, stack, acc) ==
  IF i > Len(props) THEN KeyStr(Append(acc, "}"), seen)
  ELSE LET r == serValue(heap, props[i].val, seen, stack)
       IN IF r.tag = "TypeError" THEN r
          ELSE IF r.tag = "undefined" THEN serProps(heap, props, i + 1, r.seen, stack, acc)
          ELSE serProps(heap, props, i + 1, r.seen, stack,
                        (IF Len(acc) > 1 THEN Append(acc, ",") ELSE acc)
                          \o <<quoteKey(props[i].key), ":">> \o r.toks)

\* SerializeJSONArray: an element whose value is undefined is written null.
serElems(heap, elems, i, seen, stack, acc) ==
  IF i > Len(elems) THEN KeyStr(Append(acc, "]"), seen)
  ELSE LET r == serValue(heap, elems[i].val, seen, stack)
       IN IF r.tag = "TypeError" THEN r
          ELSE serElems(heap, elems, i + 1, r.seen, stack,
                        (IF i > 1 THEN Append(acc, ",") ELSE acc)
                          \o (IF r.tag = "undefined" THEN <<"null">> ELSE r.toks))

stableKey(heap) ==
  LET r == serValue(heap, KeyRef(1), {}, {})
  IN [tag |-> r.tag, toks |-> r.toks]

(***************************************************************************)
(* Calls of stableKey on a graph and on the same graph with the properties *)
(* of its objects inserted in another order.                               *)
(***************************************************************************)
KeyNodes == 1..MaxKeyNodes
KeyValues == {KeyNum(1)} \cup { KeyRef(a) : a \in KeyNodes }
KeyObjects ==
  { [kind |-> "object", props |-> << >>] }
    \cup { [kind |-> "object", props |-> <<KeyProp(k, v)>>] : k \in {"a", "b"}, v \in KeyValues }
    \cup { [kind |-> "object", props |-> <<KeyProp(o[1], v), KeyProp(o[2], w)>>] :
             o \in {<<"a", "b">>, <<"b", "a">>}, v \in KeyValues, w \in KeyValues }
KeyArrays ==
  { [kind |-> "array", props |-> [i \in 1..Len(e) |-> KeyProp("", e[i])]] :
      e \in UNION { [1..m -> KeyValues] : m \in 0..MaxArrayLen } }
KeyHeaps == [KeyNodes -> KeyObjects \cup KeyArrays]


\* The graph with the two properties of the objects picked by flip inserted
\* the other way round.
reorderKeys(heap, flip) ==
  [ a \in DOMAIN heap |->
      IF heap[a].kind = "object" /\ flip[a] /\ Len(heap[a].props) = 2
      THEN [heap[a] EXCEPT !.props = <<heap[a].props[2], heap[a].props[1]>>]
      ELSE heap[a] ]

KeyInit ==
  /\ UiParked
  /\ kHeap \in KeyHeaps
  /\ kOut = NoCall
  /\ LevelParked
  /\ CompatParked
  /\ LruParked
  /\ SolveParked
  /\ SrvParked
  /\ FilterParked

CallStableKey ==
  /\ kOut = NoCall
  /\ \E flip \in [KeyNodes -> BOOLEAN] :
       kOut' = [ op |-> "stableKey",
                 key |-> stableKey(kHeap),
                 other |-> stableKey(reorderKeys(kHeap, flip)),
                 reordered |-> reorderKeys(kHeap, flip) # kHeap ]
  /\ UNCHANGED <<kHeap, lvlVars, compatVars, lruVars, solveVars, srvVars, filterVars, uiVars>>

KeyNext == CallStableKey
SpecKey == KeyInit /\ [][KeyNext]_vars

\* C15: stableKey returns a string for every object graph, cyclic ones
\* included, and the same string for a graph and for the graph whose
\* objects list their keys in another order.
C15_StableKey ==
  kOut.op = "stableKey" =>
    /\ kOut.key.tag = "string"
    /\ kOut.other.tag = "string"
    /\ kOut.key = kOut.other

\* The argument has two keys, one of them leading to a node that refers
\* back to the argument, and the call on the reordered graph gave the same
\* fingerprint as the call on the graph.
C15_Witness ==
  /\ kOut.op = "stableKey"
  /\ kOut.reordered
  /\ kHeap[1].kind = "object"
  /\ Len(kHeap[1].props) = 2
  /\ \E i \in 1..2 :
       /\ kHeap[1].props[i].val.t = "ref"
       /\ kHeap[1].props[i].val.ref # 1
       /\ \E j \in 1..Len(kHeap[kHeap[1].props[i].val.ref].props) :
            kHeap[kHeap[1].props[i].val.ref].props[j].val = KeyRef(1)
  /\ kOut.key.tag = "string"
  /\ kOut.key = kOut.other


(***************************************************************************)
(* Calls of skillBudgetFromLevel on two levels.                            *)
(***************************************************************************)
MaxLevel == 103
LevelInputs ==
  { LevelNum(h) : h \in (0 - 4)..(2 * MaxLevel) }
    \cup {LevelInfinity, LevelNegInfinity, LevelNaN}

\* x <= y on JS numbers; false when one of them is NaN.
LevelLeq(x, y) ==
  /\ x.t # "NaN" /\ y.t # "NaN"
  /\ \/ x.t = "-Infinity"
     \/ y.t = "Infinity"
     \/ x.t = "num" /\ y.t = "num" /\ x.halves <= y.halves

LevelInit ==
  /\ UiParked
  /\ lvl \in LevelInputs
  /\ lvlOut = NoCall
  /\ KeyParked
  /\ CompatParked
  /\ LruParked
  /\ SolveParked
  /\ SrvParked
  /\ FilterParked

CallSkillBudgetFromLevel ==
  /\ lvlOut = NoCall
  /\ \E other \in LevelInputs :
       lvlOut' = [ op |-> "skillBudgetFromLevel",
                   value |-> skillBudgetFromNumber(lvl),
                   other |-> other,
                   otherValue |-> skillBudgetFromNumber(other) ]
  /\ UNCHANGED <<lvl, keyVars, compatVars, lruVars, solveVars, srvVars, filterVars, uiVars>>

LevelNext == CallSkillBudgetFromLevel
SpecLevel == LevelInit /\ [][LevelNext]_vars

\* C16: skillBudgetFromLevel never decreases when the level grows; on an
\* integer level >= 1 it is 2 * (min(level, 101) - 1); on a level below 1
\* (0.5 is the largest of them here) it is 0; on a level >= 101 it is 200.
C16_SkillBudget ==
  lvlOut.op = "skillBudgetFromLevel" =>
    /\ LevelLeq(lvl, lvlOut.other) => lvlOut.value <= lvlOut.otherValue
    /\ (lvl.t = "num" /\ lvl.halves % 2 = 0 /\ lvl.halves >= 2)
         => lvlOut.value = 2 * (Min2(lvl.halves \div 2, 101) - 1)
    /\ LevelLeq(lvl, LevelNum(1)) => lvlOut.value = 0
    /\ LevelLeq(LevelNum(2 * 101), lvl) => lvlOut.value = 200

\* The call on level 100 returned 198 and was compared with the call on
\* level 101.5, which returned 200.
C16_Witness ==
  /\ lvlOut.op = "skillBudgetFromLevel"
  /\ lvl = LevelNum(2 * 100)
  /\ lvlOut.value = 198
  /\ lvlOut.other = LevelNum(2 * 101 + 1)
  /\ lvlOut.otherValue = 200


(***************************************************************************)
(* Bounds on the spend and boundary cases of the equip-order check, on the *)
(* calls of SpecCompat.                                                    *)
(***************************************************************************)
RECURSIVE SumReqs(_, _)
SumReqs(items, k) == IF k = 0 THEN 0 ELSE SumReqs(items, k - 1) + SumArr(items[k].reqArr)

\* What the items together take away: the negative part of the summed
\* effective bonuses, over the skills.
NetLoss(items) == negSumArr(totalBonusOf(items, Len(items)))

\* C17 (as the claim states it): minFinalSpend is at most the sum of the
\* items' requirements over the five skills, negative bonuses or not, and 0
\* for the empty list.
C17_AsClaimed ==
  StatsReturned =>
    /\ cOut.value.finalSpend <= SumReqs(cItems, Len(cItems))
    /\ cItems = << >> => cOut.value.finalSpend = 0

\* C17 (as amended): minFinalSpend is at most the sum of the items'
\* requirements plus the points the items' summed effective bonuses take away
\* (so at most the sum of the requirements when no summed bonus is negative),
\* it is never negative, and it is 0 for the empty list.
C17_SpendBound ==
  StatsReturned =>
    /\ cOut.value.finalSpend <= SumReqs(cItems, Len(cItems)) + NetLoss(cItems)
    /\ allNonNeg(totalBonusOf(cItems, Len(cItems)))
         => cOut.value.finalSpend <= SumReqs(cItems, Len(cItems))
    /\ cOut.value.finalSpend >= 0
    /\ cItems = << >> => cOut.value.finalSpend = 0

\* A single item with a negative bonus: the spend is above the sum of its
\* requirements, by what the bonus takes away.
C17_Witness ==
  /\ StatsReturned
  /\ Len(cItems) = 1
  /\ NetLoss(cItems) > 0
  /\ cOut.value.finalSpend > SumReqs(cItems, Len(cItems))
  /\ cOut.value.finalSpend = SumReqs(cItems, Len(cItems)) + NetLoss(cItems)

\* C18 (as the claim states it): canEquipAllInSomeOrder returns true for a
\* single item whose requirements sum to at most the budget.
C18_AsClaimed ==
  (CanEquipReturned /\ Len(cItems) = 1 /\ SumArr(cItems[1].reqArr) <= cBudget)
    => cOut.value = TRUE

\* C18 (as amended): for a single item, canEquipAllInSomeOrder returns true
\* exactly when its requirements sum to at most the budget and none of them
\* exceeds the per-skill cap.
C18_SingleItem ==
  (CanEquipReturned /\ Len(cItems) = 1)
    => (cOut.value = ItemAloneFits(cItems[1], cBudget, cCap))

\* A single item that takes the whole budget and is within the cap: true.
C18_Witness ==
  /\ CanEquipReturned
  /\ Len(cItems) = 1
  /\ SumArr(cItems[1].reqArr) = cBudget
  /\ cBudget > 0
  /\ \A k \in 1..5 : cItems[1].reqArr[k] <= cCap
  /\ cOut.value = TRUE

\* Item i requires more than the cap in skill k and no other item of the
\* list has a positive effective bonus in k.
OverCap(items, cap) ==
  \E i \in 1..Len(items), k \in 1..5 :
    /\ items[i].reqArr[k] > cap
    /\ \A j \in 1..Len(items) : j # i => items[j].bonusEffArr[k] <= 0

\* C19: when a requirement exceeds perSkillCap and no other item gives a
\* positive effective bonus in that skill, canEquipAllInSomeOrder returns
\* false and computeBuildStats reports equipOrderOk = false, whatever the
\* budget.
C19_OverCapInfeasible ==
  OverCap(cItems, cCap) =>
    /\ CanEquipReturned => cOut.value = FALSE
    /\ StatsReturned => cOut.value.equipOrderOk = FALSE

\* Two items, one over the cap, and a budget that covers the spend:
\* computeBuildStats reports equipOrderOk = false.
C19_Witness ==
  /\ StatsReturned
  /\ Len(cItems) = 2
  /\ OverCap(cItems, cCap)
  /\ cOut.value.remainingSP >= 0
  /\ cOut.value.equipOrderOk = FALSE

\* C20: computeBuildStats on the empty list gives finalSpend 0, remainingSP
\* equal to the budget and equipOrderOk true, for every budget >= 0.
C20_EmptyBuild ==
  (StatsReturned /\ cItems = << >>) =>
    /\ cOut.value.finalSpend = 0
    /\ cOut.value.remainingSP = cBudget
    /\ cOut.value.equipOrderOk = TRUE

\* The call on the empty list with budget 0.
C20_Witness ==
  /\ StatsReturned
  /\ cItems = << >>
  /\ cBudget = 0
  /\ cOut.value.finalSpend = 0
  /\ cOut.value.remainingSP = 0
  /\ cOut.value.equipOrderOk = TRUE


(***************************************************************************)
(* The allocation presets, as computeBuildStats hands them out.            *)
(***************************************************************************)
\* Per skill, what the items need once all their bonuses count, and the
\* same capped per skill.
NeedOf(items) ==
  [ k \in 1..5 |->
      Max2(0, maxReqOf(items, Len(items))[k] - totalBonusOf(items, Len(items))[k]) ]
NeedCapped(items, cap) == [ k \in 1..5 |-> Min2(cap, NeedOf(items)[k]) ]
PresetNames ==
  << "Min spend", "Balanced", "Prioritize STR", "Prioritize DEX", "Prioritize INT",
     "Prioritize DEF", "Prioritize AGI" >>
PresetsReturned == StatsReturned /\ cOut.value.finalSpend <= cBudget

\* What every preset satisfies: its name, components between the capped
\* need and the cap, used the sum of the components and within the budget.
PresetsWellFormed ==
  /\ Len(cOut.value.allocs) = 7
  /\ \A p \in 1..7 :
       LET preset == cOut.value.allocs[p]
       IN /\ preset.name = PresetNames[p]
          /\ \A k \in 1..5 : /\ preset.alloc[k] >= NeedCapped(cItems, cCap)[k]
                             /\ preset.alloc[k] <= cCap
          /\ preset.used = SumArr(preset.alloc)
          /\ preset.used <= cBudget
  /\ cOut.value.allocs[1].alloc = NeedCapped(cItems, cCap)

\* C21 (as the claim states it): when minFinalSpend(items) <= budget, every
\* preset lies between the Min spend allocation and the cap, reports used as
\* the sum of its components, uses at most the budget, and the Min spend
\* preset uses exactly minFinalSpend(items) points.
C21_AsClaimed ==
  PresetsReturned =>
    /\ PresetsWellFormed
    /\ cOut.value.allocs[1].used = minFinalSpend(cItems)

\* C21 (as amended): the same, but the Min spend preset uses the capped
\* need, which is minFinalSpend(items) exactly when no skill needs more than
\* the cap and less otherwise.
C21_Presets ==
  PresetsReturned =>
    /\ PresetsWellFormed
    /\ cOut.value.allocs[1].used = SumArr(NeedCapped(cItems, cCap))
    /\ cOut.value.allocs[1].used <= cOut.value.finalSpend
    /\ (cOut.value.allocs[1].used = cOut.value.finalSpend)
         <=> (\A k \in 1..5 : NeedOf(cItems)[k] <= cCap)

\* Presets for items that need more than the cap in a skill, with points
\* left over: Min spend uses fewer points than minFinalSpend.
C21_Witness ==
  /\ PresetsReturned
  /\ Len(cItems) >= 1
  /\ \E k \in 1..5 : NeedOf(cItems)[k] > cCap
  /\ cOut.value.remainingSP > 0
  /\ Len(cOut.value.allocs) = 7
  /\ cOut.value.allocs[1].used < cOut.value.finalSpend
  /\ cOut.value.allocs[2].used > cOut.value.allocs[1].used

\* The points left after the Min spend allocation.
SurplusBudget == Max2(0, cBudget - SumArr(NeedCapped(cItems, cCap)))
SurplusOf(preset, k) == preset.alloc[k] - NeedCapped(cItems, cCap)[k]

\* C22: in the preset that prioritizes skill x, x is at the cap or got all
\* the points left while the other skills stay at their Min spend value; in
\* Balanced, two skills that are both below the cap got numbers of points
\* that differ by at most 1.
C22_PresetOrder ==
  PresetsReturned =>
    /\ \A x \in 1..5 :
         LET preset == cOut.value.allocs[x + 2]
         IN \/ preset.alloc[x] = cCap
            \/ /\ SurplusOf(preset, x) = SurplusBudget
               /\ \A k \in 1..5 : k # x => SurplusOf(preset, k) = 0
    /\ \A i, j \in 1..5 :
         LET balanced == cOut.value.allocs[2]
         IN (balanced.alloc[i] < cCap /\ balanced.alloc[j] < cCap)
              => /\ SurplusOf(balanced, i) - SurplusOf(balanced, j) <= 1
                 /\ SurplusOf(balanced, j) - SurplusOf(balanced, i) <= 1

\* With points left for more than one round: Balanced gave one skill two
\* points and another one, and Prioritize DEX put all of them into dexterity.
C22_Witness ==
  /\ PresetsReturned
  /\ SurplusBudget > 5
  /\ \E i, j \in 1..5 :
       /\ SurplusOf(cOut.value.allocs[2], i) = 2
       /\ SurplusOf(cOut.value.allocs[2], j) = 1
  /\ SurplusOf(cOut.value.allocs[4], 2) = SurplusBudget
  /\ cOut.value.allocs[4].alloc[2] < cCap


(***************************************************************************)
(* api.js: passesFilters and reasonFails.  A context is the ctx object of  *)
(* a handler: class "" is null, allowedRarities {} is null or an empty     *)
(* array, minItemLevel, mustGiveStat and minImprove are None when null.    *)
(* The reason "" is null.                                                  *)
(***************************************************************************)
passesFilters(it, ctx) ==
  IF it.levelReq > ctx.level THEN FALSE
  ELSE IF ctx.class # "" /\ it.classReq # "" /\ it.classReq # ctx.class THEN FALSE
  ELSE IF /\ ctx.class # ""
          /\ it.slot = "weapon" /\ ctx.strictWeaponClass
          /\ weaponTypeForClass(ctx.class) # "" /\ it.weaponType # ""
          /\ it.weaponType # weaponTypeForClass(ctx.class) THEN FALSE
  ELSE IF IsSome(ctx.minItemLevel) /\ it.levelReq < TheVal(ctx.minItemLevel) THEN FALSE
  ELSE IF ctx.allowedRarities # {} /\ it.rarity \notin ctx.allowedRarities THEN FALSE
  ELSE IF ctx.noMythic /\ toLowerCase(it.rarity) = "mythic" THEN FALSE
  ELSE IF ctx.noCraftedBestEffort /\ ~it.identifier THEN FALSE
  ELSE IF ctx.noNegativeItemSkillBonuses /\ (\E k \in 1..5 : it.bonusArr[k] < 0) THEN FALSE
  ELSE IF /\ IsSome(ctx.mustGiveStat)
          /\ (IF it.slot = "weapon" THEN it.bonusArr[TheVal(ctx.mustGiveStat) + 1]
              ELSE it.bonusEffArr[TheVal(ctx.mustGiveStat) + 1]) <= 0 THEN FALSE
  ELSE TRUE

reasonFails(it, ctx, baseItems, candidateItems, baselineSpend) ==
  IF it.levelReq > ctx.level THEN "fails level"
  ELSE IF IsSome(ctx.minItemLevel) /\ it.levelReq < TheVal(ctx.minItemLevel)
       THEN "fails min level"
  ELSE IF ctx.class # "" /\ it.classReq # "" /\ it.classReq # ctx.class THEN "fails class"
  ELSE IF /\ ctx.class # ""
          /\ it.slot = "weapon" /\ ctx.strictWeaponClass
          /\ weaponTypeForClass(ctx.class) # "" /\ it.weaponType # ""
          /\ it.weaponType # weaponTypeForClass(ctx.class) THEN "fails weapon class"
  ELSE IF ctx.allowedRarities # {} /\ it.rarity \notin ctx.allowedRarities THEN "fails rarity"
  ELSE IF ctx.noMythic /\ toLowerCase(it.rarity) = "mythic" THEN "excluded mythic"
  ELSE IF ctx.noCraftedBestEffort /\ ~it.identifier THEN "excluded crafted/unidentified"
  ELSE IF ctx.noNegativeItemSkillBonuses /\ (\E k \in 1..5 : it.bonusArr[k] < 0)
       THEN "excluded negative skill bonus"
  ELSE LET st == computeBuildStats(baseItems \o candidateItems, ctx.budget, DefaultPerSkillCap)
       IN IF ctx.noNegativeNetSkillBonuses /\ (\E k \in 1..5 : st.netBonus[k] < 0)
          THEN "excluded negative net bonuses"
          ELSE IF st.finalSpend > ctx.budget THEN "fails final budget"
          ELSE IF ~st.equipOrderOk THEN "fails equip order"
          ELSE IF /\ IsSome(ctx.minImprove)
                  /\ (ctx.budget - st.finalSpend)
                       - (ctx.budget - OrElse(baselineSpend, minFinalSpend(baseItems)))
                     < TheVal(ctx.minImprove)
               THEN "fails improvement threshold"
          ELSE ""

(***************************************************************************)
(* Calls of the candidate filters on one item and one context.             *)
(***************************************************************************)
FilterLevel == 2
FilterItems ==
  { [ name |-> "candidate", slot |-> sw[1], weaponType |-> sw[2], levelReq |-> lr,
      reqArr |-> emptyArr, bonusArr |-> b,
      bonusEffArr |-> IF sw[1] = "weapon" THEN emptyArr ELSE b,
      rarity |-> r, identifier |-> idf, classReq |-> cr ] :
      sw \in {<<"helmet", "">>, <<"weapon", "spear">>, <<"weapon", "wand">>},
      lr \in (FilterLevel - 1)..(FilterLevel + 1),
      b \in {emptyArr, <<1, 0, 0, 0, 0>>, <<-1, 0, 0, 0, 0>>},
      r \in {"Rare", "Mythic"}, idf \in BOOLEAN, cr \in {"", "warrior"} }

\* What decides the checks after the filter chain: the budget, the net
\* bonus toggle and the improvement threshold.
FilterTails ==
  { [budget |-> 1, noNegativeNetSkillBonuses |-> FALSE, minImprove |-> None],
    [budget |-> 0, noNegativeNetSkillBonuses |-> TRUE, minImprove |-> None],
    [budget |-> 1, noNegativeNetSkillBonuses |-> FALSE, minImprove |-> Some(0)] }

FilterContexts ==
  { [ level |-> FilterLevel, class |-> cls, strictWeaponClass |-> strict,
      minItemLevel |-> mil, allowedRarities |-> ar, noMythic |-> nm,
      noCraftedBestEffort |-> nc, noNegativeItemSkillBonuses |-> nn, mustGiveStat |-> mgs,
      budget |-> tail.budget, noNegativeNetSkillBonuses |-> tail.noNegativeNetSkillBonuses,
      minImprove |-> tail.minImprove ] :
      cls \in {"", "mage", "warrior", "bard"}, strict \in BOOLEAN,
      mil \in {None, Some(FilterLevel)}, ar \in {{}, {"Rare"}}, nm \in BOOLEAN,
      nc \in BOOLEAN, nn \in BOOLEAN, mgs \in {None, Some(0)}, tail \in FilterTails }

StrictParked == fRaw = << >>

FilterInit ==
  /\ UiParked
  /\ fItem \in FilterItems
  /\ fCtx \in FilterContexts
  /\ fOut = NoCall
  /\ StrictParked
  /\ KeyParked
  /\ LevelParked
  /\ CompatParked
  /\ LruParked
  /\ SolveParked
  /\ SrvParked

\* /compatible: "return passesFilters(it, ctx)" on a candidate of the pool.
CallPassesFilters ==
  /\ fOut = NoCall
  /\ fOut' = [op |-> "passesFilters", value |-> passesFilters(fItem, fCtx)]
  /\ UNCHANGED <<fItem, fCtx, fRaw, keyVars, lvlVars, compatVars, lruVars, solveVars, srvVars, uiVars>>

\* /solve: solveBuild filters its pools with passesBaseFilters.
CallPassesBaseFilters ==
  /\ fOut = NoCall
  /\ fOut' = [op |-> "passesBaseFilters", value |-> passesBaseFilters(fItem, fCtx)]
  /\ UNCHANGED <<fItem, fCtx, fRaw, keyVars, lvlVars, compatVars, lruVars, solveVars, srvVars, uiVars>>

\* /explain with nothing selected: reasonFails(cand, ctx, [], [cand], 0).
CallReasonFails ==
  /\ fOut = NoCall
  /\ fOut' = [ op |-> "reasonFails",
               reason |-> reasonFails(fItem, fCtx, << >>, <<fItem>>,
                                      Some(computeBuildStats(<< >>, fCtx.budget,
                                                             DefaultPerSkillCap).finalSpend)) ]
  /\ UNCHANGED <<fItem, fCtx, fRaw, keyVars, lvlVars, compatVars, lruVars, solveVars, srvVars, uiVars>>

FilterNext ==
  \/ CallPassesFilters
  \/ CallPassesBaseFilters
  \/ CallReasonFails

SpecFilter == FilterInit /\ [][FilterNext]_vars

FilterReturned == fOut.op \in {"passesFilters", "passesBaseFilters"}

\* C23 (as the claim states it): an item with a class requirement passes
\* passesFilters / passesBaseFilters only if the requirement equals the
\* context class, also in a context with no class selected.
C23_AsClaimed ==
  (FilterReturned /\ fItem.classReq # "" /\ fOut.value) => fItem.classReq = fCtx.class


\* The five classes and the weapon each of them wields.
CanonicalWeapon ==
  [ cls \in {"warrior", "mage", "archer", "assassin", "shaman"} |->
      CASE cls = "warrior" -> "spear" [] cls = "mage" -> "wand" [] cls = "archer" -> "bow"
        [] cls = "assassin" -> "dagger" [] OTHER -> "relik" ]

\* What the call that returned would have returned for the same item with
\* another weapon type.
FilterValueWith(weaponType) ==
  IF fOut.op = "passesFilters"
  THEN passesFilters([fItem EXCEPT !.weaponType = weaponType], fCtx)
  ELSE passesBaseFilters([fItem EXCEPT !.weaponType = weaponType], fCtx)

\* C24: for a context whose class is one of the five classes: with
\* strictWeaponClass on, a weapon passes passesFilters / passesBaseFilters
\* only if its weaponType is the weapon of that class; with strictWeaponClass
\* off, the result does not depend on the weaponType, and an item whose
\* class requirement is another class is still rejected.
C24_StrictWeaponClass ==
  (FilterReturned /\ fCtx.class \in DOMAIN CanonicalWeapon) =>
    /\ (fCtx.strictWeaponClass /\ fItem.slot = "weapon" /\ fOut.value)
         => fItem.weaponType = CanonicalWeapon[fCtx.class]
    /\ (~fCtx.strictWeaponClass /\ fItem.slot = "weapon")
         => \A w \in {"spear", "wand", "bow", "dagger", "relik"} : FilterValueWith(w) = fOut.value
    /\ (~fCtx.strictWeaponClass /\ fItem.classReq # "" /\ fItem.classReq # fCtx.class)
         => ~fOut.value

\* A mage context: a wand passed with strictWeaponClass on.
C24_Witness ==
  /\ FilterReturned
  /\ fCtx.class = "mage"
  /\ fCtx.strictWeaponClass
  /\ fItem.slot = "weapon"
  /\ fItem.weaponType = "wand"
  /\ fOut.value


(***************************************************************************)
(* api.js: how each endpoint reads the strictWeaponClass input.            *)
(***************************************************************************)
\* A request value that is neither a primitive nor missing (an object).
Obj == [t |-> "object"]

\* String(value) for the values a request carries.
toStringJS(value) ==
  CASE value.t = "string" -> value.s
    [] value.t = "number" -> ToString(value.n)
    [] value.t = "boolean" -> (IF value.b THEN "true" ELSE "false")
    [] value.t = "null" -> "null"
    [] value.t = "undefined" -> "undefined"
    [] OTHER -> "[object Object]"

\* value ?? d
nullish(value, d) == IF value.t \in {"undefined", "null"} THEN d ELSE value

\* /search: String(req.query.strictWeaponClass ?? "0") === "1".
searchStrictWeaponClass(value) == toStringJS(nullish(value, Str("0"))) = "1"

\* /compatible, /explain, /solve: parseBool(body.strictWeaponClass, true).
bodyStrictWeaponClass(value) == parseBool(value, TRUE)

StrictEndpoints == {"search", "compatible", "explain", "solve"}

strictWeaponClassOf(endpoint, value) ==
  IF endpoint = "search" THEN searchStrictWeaponClass(value) ELSE bodyStrictWeaponClass(value)

\* The strictWeaponClass values of the requests considered.
StrictStrings ==
  { "true", "false", "1", "0", "", " true ", "TRUE", "True", "FALSE", " 1",
    "yes", "no", "on", "off", "invalid", "2" }

StrictInputs ==
  {Absent, Null, Obj} \cup {Bool(b) : b \in BOOLEAN} \cup {Num(n) : n \in (0 - 1)..2}
    \cup {Str(str) : str \in StrictStrings}

StrictInit ==
  /\ UiParked
  /\ fRaw \in StrictInputs
  /\ fItem = << >>
  /\ fCtx = << >>
  /\ fOut = NoCall
  /\ KeyParked
  /\ LevelParked
  /\ CompatParked
  /\ LruParked
  /\ SolveParked
  /\ SrvParked

ReadStrict(endpoint) ==
  /\ fOut = NoCall
  /\ fOut' = [op |-> endpoint, value |-> strictWeaponClassOf(endpoint, fRaw)]
  /\ UNCHANGED <<fItem, fCtx, fRaw, keyVars, lvlVars, compatVars, lruVars, solveVars, srvVars, uiVars>>

SearchReadsStrict == ReadStrict("search")
CompatibleReadsStrict == ReadStrict("compatible")
ExplainReadsStrict == ReadStrict("explain")
SolveReadsStrict == ReadStrict("solve")

StrictNext ==
  \/ SearchReadsStrict
  \/ CompatibleReadsStrict
  \/ ExplainReadsStrict
  \/ SolveReadsStrict

SpecStrict == StrictInit /\ [][StrictNext]_vars

StrictReturned == fOut.op \in StrictEndpoints

\* The spellings the endpoints document, and the inputs that carry no value.
StrictTrueInputs == {Bool(TRUE), Num(1), Str("true"), Str("1")}
StrictFalseInputs == {Bool(FALSE), Num(0), Str("false"), Str("0")}
StrictEmptyInputs == {Absent, Null, Str("")}

\* C25 (as the claim states it): whichever of the four endpoints reads the
\* strictWeaponClass input, true, 1, "true" and "1" give true, false, 0,
\* "false" and "0" give false, a missing, null or empty value gives true,
\* and every endpoint gives what every other endpoint gives for that input.
C25_AsClaimed ==
  StrictReturned =>
    /\ fRaw \in StrictTrueInputs => fOut.value
    /\ fRaw \in StrictFalseInputs => ~fOut.value
    /\ fRaw \in StrictEmptyInputs => fOut.value
    /\ \A e \in StrictEndpoints : strictWeaponClassOf(e, fRaw) = fOut.value


(***************************************************************************)
(* The reason of /explain against the filter chain of passesFilters.       *)
(***************************************************************************)
\* The item fails the must-give-stat test of passesFilters.
failsMustGiveStat(it, ctx) ==
  /\ IsSome(ctx.mustGiveStat)
  /\ (IF it.slot = "weapon" THEN it.bonusArr[TheVal(ctx.mustGiveStat) + 1]
      ELSE it.bonusEffArr[TheVal(ctx.mustGiveStat) + 1]) <= 0

\* The reasons reasonFails has for the tests passesFilters makes, and a
\* name for the must-give-stat test, for which it has none.
MustGiveStatReason == "fails must give stat"

ChainReasons ==
  { "fails level", "fails min level", "fails class", "fails weapon class",
    "fails rarity", "excluded mythic", "excluded crafted/unidentified",
    "excluded negative skill bonus", MustGiveStatReason }

\* The first test of the chain (level, minimum item level, class, strict
\* weapon class, rarity, mythic, crafted, negative item bonus, must give
\* stat) that the item fails; "" when it fails none.
firstChainFailure(it, ctx) ==
  IF it.levelReq > ctx.level THEN "fails level"
  ELSE IF IsSome(ctx.minItemLevel) /\ it.levelReq < TheVal(ctx.minItemLevel)
       THEN "fails min level"
  ELSE IF ctx.class # "" /\ it.classReq # "" /\ it.classReq # ctx.class THEN "fails class"
  ELSE IF /\ ctx.class # ""
          /\ it.slot = "weapon" /\ ctx.strictWeaponClass
          /\ weaponTypeForClass(ctx.class) # "" /\ it.weaponType # ""
          /\ it.weaponType # weaponTypeForClass(ctx.class) THEN "fails weapon class"
  ELSE IF ctx.allowedRarities # {} /\ it.rarity \notin ctx.allowedRarities THEN "fails rarity"
  ELSE IF ctx.noMythic /\ toLowerCase(it.rarity) = "mythic" THEN "excluded mythic"
  ELSE IF ctx.noCraftedBestEffort /\ ~it.identifier THEN "excluded crafted/unidentified"
  ELSE IF ctx.noNegativeItemSkillBonuses /\ (\E k \in 1..5 : it.bonusArr[k] < 0)
       THEN "excluded negative skill bonus"
  ELSE IF failsMustGiveStat(it, ctx) THEN MustGiveStatReason
  ELSE ""

\* The filter-chain failure a returned reason reports; "" when it reports
\* none (null, or a reason of the budget, equip-order and improvement tests).
ReportedChainFailure == IF fOut.reason \in ChainReasons THEN fOut.reason ELSE ""

\* C26 (as the claim states it): the reason reasonFails returns reports the
\* first test of the filter chain that the item fails, and it reports no
\* filter-chain failure exactly when passesFilters accepts the item.
C26_AsClaimed ==
  fOut.op = "reasonFails" =>
    /\ ReportedChainFailure = firstChainFailure(fItem, fCtx)
    /\ (ReportedChainFailure = "") <=> passesFilters(fItem, fCtx)


(***************************************************************************)
(* solver.js: the capped pools and the ring search on catalogs with many   *)
(* rings.  No item of these catalogs gives a bonus.                        *)
(***************************************************************************)
RingsBeyondLimit == 1     \* rings a catalog holds beyond a cap of the solver

\* Ring names with the digits padded, so that the order by name is the
\* order by number.
ringName(k) ==
  "ring-" \o (IF k < 10 THEN "00" ELSE IF k < 100 THEN "0" ELSE "") \o ToString(k)

\* Ring k of a catalog whose ring number good needs nothing; every other
\* ring needs one strength point.
ringOf(k, good) ==
  mkItem(ringName(k), "ring", 1, IF k = good THEN Zero5 ELSE <<1, 0, 0, 0, 0>>, Zero5)

lockRing == mkItem("ring-locked", "ring", 1, Zero5, Zero5)
helmetA == mkItem("helmet-a", "helmet", 1, Zero5, Zero5)
helmetB == mkItem("helmet-b", "helmet", 1, Zero5, Zero5)

\* A catalog with count numbered rings, as WynnDb.load builds bySlot and
\* byName (lists sorted by name).
ringDb(count, good) ==
  LET bySlot == [ slot \in {"helmet", "chestplate", "leggings", "boots", "necklace",
                            "bracelet", "weapon", "ring", "tome"} |->
                    CASE slot = "helmet" -> <<helmetA, helmetB>>
                      [] slot = "ring" -> [k \in 1..count |-> ringOf(k, good)] \o <<lockRing>>
                      [] slot = "tome" -> << >>
                      [] OTHER -> <<plainOf(slot)>> ]
      items == UNION { SeqToSet(bySlot[slot]) : slot \in DOMAIN bySlot }
  IN [ bySlot |-> bySlot,
       byName |-> [ name \in { it.name : it \in items } |->
                      CHOOSE it \in items : it.name = name ] ]

RingCounts ==
  1..2 \cup (RingSearchLimit - 1)..(RingSearchLimit + RingsBeyondLimit)
       \cup {DefaultSolverRingPoolCap + RingsBeyondLimit}

\* The ring that needs nothing is the first or the last one.
RingDbs == UNION { { ringDb(count, 1), ringDb(count, count) } : count \in RingCounts }

\* Everything locked but the second ring and, for some calls, the helmet.
poolLocks(helmetOpen) ==
  [ key \in LockKeys |->
      IF key = "ring2" \/ (helmetOpen /\ key = "helmet") THEN None
      ELSE IF key = "ring1" THEN Some(lockRing)
      ELSE IF key = "helmet" THEN Some(helmetA)
      ELSE Some(plainOf(key)) ]

PoolContexts ==
  { [ level |-> 2, class |-> "", strictWeaponClass |-> TRUE, budget |-> 0,
      allowedRarities |-> {}, minItemLevel |-> None, noMythic |-> FALSE,
      noCraftedBestEffort |-> FALSE, noNegativeItemSkillBonuses |-> FALSE,
      noNegativeNetSkillBonuses |-> FALSE, mustGiveStat |-> None,
      lockedBySlot |-> poolLocks(helmetOpen), tomes |-> << >>, poolCap |-> cap,
      ringPoolCap |-> ringCap, maxNodes |-> None ] :
    helmetOpen \in BOOLEAN, cap \in {None, Some(1)},
    ringCap \in {None, Some(1), Some(RingSearchLimit), Some(DEFAULT_RING_POOL_CAP)} }

PoolInit ==
  /\ UiParked
  /\ sDb \in RingDbs
  /\ sOut = NoCall
  /\ CompatParked
  /\ LruParked
  /\ SrvParked
  /\ KeyParked
  /\ LevelParked
  /\ FilterParked

\* A call solveBuild(db, ctx) on one of these catalogs.
CallSolveBuildOnRings ==
  \E ctx \in PoolContexts :
    /\ sOut = NoCall
    /\ sOut' = [ op |-> "solveBuild", ctx |-> ctx, ret |-> solveBuild(sDb, ctx) ]
    /\ UNCHANGED <<sDb, compatVars, lruVars, srvVars, keyVars, lvlVars, filterVars, uiVars>>

PoolNext == CallSolveBuildOnRings

SpecPool == PoolInit /\ [][PoolNext]_vars

\* The cap the pool of a slot has: the context's, or the documented default.
DocumentedCap(slot, ctx) ==
  IF slot = "ring" THEN OrElse(ctx.ringPoolCap, DEFAULT_RING_POOL_CAP)
  ELSE OrElse(ctx.poolCap, DEFAULT_POOL_CAP)

\* C27 (as the claim states it): after a solveBuild call, every pool is the
\* first poolCap (default 80) filtered candidates of its slot, the ring pool
\* the first ringPoolCap (default 140) filtered rings, and every candidate
\* of these pools was tried: when a complete assignment over the pools is
\* accepted, a build is returned.
C27_AsClaimed ==
  sOut.op = "solveBuild" =>
    LET ctx == sOut.ctx
        pools == poolsOf(sDb, ctx)
        chosenNames == NamesOf(lockedItemsOf(ctx))
    IN /\ \A k \in 1..Len(pools) :
            pools[k].pool = slice0(filteredOf(sDb, pools[k].slot, chosenNames, ctx),
                                   DocumentedCap(pools[k].slot, ctx))
       /\ (\E a \in CompleteAssignments(sDb, ctx) : Accepted(a, ctx)) => IsBuild(sOut.ret)


(***************************************************************************)
(* solver.js: two solveBuild calls on the same catalog and context.        *)
(***************************************************************************)
\* A variant that cuts the pools out of the catalog lists (splice for
\* slice): the pooled candidates are gone from db.bySlot after the call.
dbAfterSolve_Splice(db, ctx) ==
  LET pools == poolsOf(db, ctx)
      pooled == UNION { NamesOf(pools[k].pool) : k \in 1..Len(pools) }
  IN [ db EXCEPT !.bySlot = [ slot \in DOMAIN db.bySlot |->
                                SelectSeq(db.bySlot[slot], LAMBDA it : it.name \notin pooled) ] ]

\* The catalog after solveBuild(db, ctx): filter and slice build new arrays
\* and lockedItems is a new array, so db is left as it was.
dbAfterSolve(db, ctx) == db

\* The contexts of the repeated calls.
RepeatContexts == { ctx \in SolveContexts : ctx.mustGiveStat = None }

\* A first call solveBuild(db, ctx).
SolveFirst ==
  \E ctx \in RepeatContexts :
    /\ sOut = NoCall
    /\ sOut' = [ op |-> "solveBuild", ctx |-> ctx, ret |-> solveBuild(sDb, ctx) ]
    /\ sDb' = dbAfterSolve(sDb, ctx)
    /\ UNCHANGED <<compatVars, lruVars, srvVars, keyVars, lvlVars, filterVars, uiVars>>

\* A second call with the same context on the catalog the first call left.
SolveAgain ==
  /\ sOut.op = "solveBuild"
  /\ sOut' = [ op |-> "solveBuild again", ctx |-> sOut.ctx, first |-> sOut.ret,
               ret |-> solveBuild(sDb, sOut.ctx) ]
  /\ sDb' = dbAfterSolve(sDb, sOut.ctx)
  /\ UNCHANGED <<compatVars, lruVars, srvVars, keyVars, lvlVars, filterVars, uiVars>>

RepeatNext == SolveFirst \/ SolveAgain

SpecRepeat == SolveInit /\ [][RepeatNext]_vars

WeaponBonuses == { emptyArr, <<2, 0, 0, 0, 0>>, <<0, 2, 0, 0, 0>>, <<-1, 0, 0, 0, 1>> }

WeaponItems ==
  { mkItem("blade", "weapon", 1, reqArr, bonusArr) :
      reqArr \in { emptyArr, <<1, 0, 0, 0, 0>> }, bonusArr \in WeaponBonuses }

\* A weapon alone, or with one more item before or after it.
WeaponBuilds ==
  { <<w>> : w \in WeaponItems }
    \cup { <<w, it>> : w \in WeaponItems, it \in CompatItems }
    \cup { <<it, w>> : w \in WeaponItems, it \in CompatItems }

WeaponInit ==
  /\ UiParked
  /\ cItems \in WeaponBuilds
  /\ cBudget \in CompatBudgets
  /\ cCap \in CapChoices
  /\ cOut = NoCall
  /\ LruParked
  /\ SolveParked
  /\ SrvParked
  /\ KeyParked
  /\ LevelParked
  /\ FilterParked

WeaponNext == CallComputeBuildStats

SpecWeapon == WeaponInit /\ [][WeaponNext]_vars

\* The build with the display bonus of its weapons replaced, each weapon
\* normalized again.
withWeaponBonus(items, bonusArr) ==
  [ k \in 1..Len(items) |->
      IF items[k].slot = "weapon"
      THEN mkItem(items[k].name, "weapon", items[k].levelReq, items[k].reqArr, bonusArr)
      ELSE items[k] ]

\* C29: the effective bonus of every weapon of a build is the zero vector,
\* and computeBuildStats (finalSpend, remainingSP, equipOrderOk, allocs,
\* netBonus) returns for the build what it returns for every build that
\* differs from it only in the display bonus of the weapon.
C29_WeaponBonusIgnored ==
  StatsReturned =>
    /\ \A k \in 1..Len(cItems) : cItems[k].slot = "weapon" => cItems[k].bonusEffArr = emptyArr
    /\ \A bonusArr \in WeaponBonuses :
         computeBuildStats(withWeaponBonus(cItems, bonusArr), cBudget, cCap) = cOut.value

\* A weapon that displays +2 strength next to an item that needs 2
\* strength: the two points are still spent.
C29_Witness ==
  /\ StatsReturned
  /\ \E k \in 1..Len(cItems) :
        cItems[k].slot = "weapon" /\ cItems[k].bonusArr = <<2, 0, 0, 0, 0>>
  /\ \E k \in 1..Len(cItems) : cItems[k].reqArr = <<2, 0, 0, 0, 0>>
  /\ cOut.value.finalSpend = 2
  /\ cOut.value.netBonus = emptyArr


(***************************************************************************)
(* solver.js: the budget prune of rec against the assignments it cuts.     *)
(***************************************************************************)
\* The complete assignments in the order rec fills the slots.
SearchAssignments(db, ctx) ==
  completeFrom(slotsToFillOf(db, ctx), 1, lockedItemsOf(ctx), ctx)

\* The partial assignments rec passes on its way to a complete one: the
\* locked items alone, then one more item at a time.
PartialsOf(a, ctx) == { SubSeq(a, 1, k) : k \in Len(lockedItemsOf(ctx))..Len(a) }

\* rec returns at once on this partial assignment: "stNow.finalSpend > ctx.budget".
BudgetPruned(items, ctx) == minFinalSpend(items) > ctx.budget

\* C30 (as the claim states it): along every way to a complete assignment,
\* minFinalSpend of a partial assignment (the locked items alone included)
\* is at most minFinalSpend of the complete one, and no partial assignment
\* of an accepted complete assignment is cut by the budget prune.
C30_AsClaimed ==
  Solved =>
    \A a \in SearchAssignments(sDb, sOut.ctx) :
      \A part \in PartialsOf(a, sOut.ctx) :
        /\ minFinalSpend(part) <= minFinalSpend(a)
        /\ Accepted(a, sOut.ctx) => ~BudgetPruned(part, sOut.ctx)


(***************************************************************************)
(* solver.js: the net-bonus prune and the ring selection, on catalogs with *)
(* one helmet and three rings whose bonuses vary.  No item has a           *)
(* requirement.                                                            *)
(***************************************************************************)
NetBonusChoices == { <<-1, 0, 0, 0, 0>>, Zero5, <<1, 0, 0, 0, 0>> }

netHelmet(bonusArr) == mkItem("helmet-n", "helmet", 1, Zero5, bonusArr)
netRing(name, bonusArr) == mkItem(name, "ring", 1, Zero5, bonusArr)

\* A catalog as WynnDb.load builds it: the helmet and the first ring carry
\* the given bonuses, the other two rings none.
netDb(helmetBonus, ringBonus) ==
  LET bySlot == [ slot \in {"helmet", "chestplate", "leggings", "boots", "necklace",
                            "bracelet", "weapon", "ring", "tome"} |->
                    CASE slot = "helmet" -> <<netHelmet(helmetBonus)>>
                      [] slot = "ring" -> << netRing("ring-a", ringBonus),
                                             netRing("ring-b", Zero5),
                                             netRing("ring-c", Zero5) >>
                      [] slot = "tome" -> << >>
                      [] OTHER -> <<plainOf(slot)>> ]
      items == UNION { SeqToSet(bySlot[slot]) : slot \in DOMAIN bySlot }
  IN [ bySlot |-> bySlot,
       byName |-> [ name \in { it.name : it \in items } |->
                      CHOOSE it \in items : it.name = name ] ]

\* The locks of a call: the open keys are not locked, ring1 is locked to
\* the first ring of the catalog, ring2 to the second, every other key to
\* the item of its slot.
netLocks(db, open) ==
  [ key \in LockKeys |->
      IF key \in open THEN None
      ELSE IF key = "ring1" THEN Some(db.bySlot["ring"][1])
      ELSE IF key = "ring2" THEN Some(db.bySlot["ring"][2])
      ELSE Some(db.bySlot[key][1]) ]

NetOpenChoices ==
  { helmet \cup rings : helmet \in {{}, {"helmet"}},
                        rings \in {{}, {"ring1"}, {"ring2"}, {"ring1", "ring2"}} }

netCtx(db, open, noNeg) ==
  [ level |-> 2, class |-> "", strictWeaponClass |-> TRUE, budget |-> 1,
    allowedRarities |-> {}, minItemLevel |-> None, noMythic |-> FALSE,
    noCraftedBestEffort |-> FALSE, noNegativeItemSkillBonuses |-> FALSE,
    noNegativeNetSkillBonuses |-> noNeg, mustGiveStat |-> None,
    lockedBySlot |-> netLocks(db, open), tomes |-> << >>, poolCap |-> None,
    ringPoolCap |-> None, maxNodes |-> None ]

NetInit ==
  /\ UiParked
  /\ sDb \in { netDb(hb, rb) : hb \in NetBonusChoices, rb \in NetBonusChoices }
  /\ sOut = NoCall
  /\ CompatParked
  /\ LruParked
  /\ SrvParked
  /\ KeyParked
  /\ LevelParked
  /\ FilterParked

\* A call solveBuild(db, ctx) on one of these catalogs.
CallSolveBuildOnNet ==
  \E open \in NetOpenChoices, noNeg \in BOOLEAN :
    /\ sOut = NoCall
    /\ sOut' = [ op |-> "solveBuild", ctx |-> netCtx(sDb, open, noNeg),
                 ret |-> solveBuild(sDb, netCtx(sDb, open, noNeg)) ]
    /\ UNCHANGED <<sDb, compatVars, lruVars, srvVars, keyVars, lvlVars, filterVars, uiVars>>

NetNext == CallSolveBuildOnNet

SpecNet == NetInit /\ [][NetNext]_vars

NetNonNegative(items) == \A k \in 1..5 : totalBonusOf(items, Len(items))[k] >= 0

\* C31 (as the claim states it): with noNegativeNetSkillBonuses set, no
\* partial assignment on the way to a complete assignment whose net
\* effective bonus is non-negative in all five skills is cut by the
\* net-bonus prune, and when such a complete assignment is accepted a build
\* is returned.
C31_AsClaimed ==
  (sOut.op = "solveBuild" /\ sOut.ctx.noNegativeNetSkillBonuses) =>
    \A a \in SearchAssignments(sDb, sOut.ctx) :
      NetNonNegative(a) =>
        /\ \A part \in PartialsOf(a, sOut.ctx) : ~violatesNetNegative(part, sOut.ctx)
        /\ Accepted(a, sOut.ctx) => IsBuild(sOut.ret)


\* The positions of the rings of a build, and the pool the search took
\* its rings from.
RingPositions(items) == { k \in 1..Len(items) : items[k].slot = "ring" }
RingPoolOf(db, ctx) ==
  poolOf(db, "ring", NamesOf(lockedItemsOf(ctx)), ctx,
         OrElse(ctx.ringPoolCap, DefaultSolverRingPoolCap))
OpenRingKeys(ctx) == { key \in {"ring1", "ring2"} : ~IsSome(ctx.lockedBySlot[key]) }

\* C32: a build solveBuild returns holds exactly two rings; with no ring
\* key locked they are two items of the ring pool with different names,
\* taken in pool order; with exactly one ring key locked they are the
\* locked ring and one item of the ring pool with another name; and no
\* item chosen by the search has the name of a locked item or of another
\* chosen item.
C32_TwoRings ==
  (sOut.op = "solveBuild" /\ IsBuild(sOut.ret)) =>
    LET ctx == sOut.ctx
        items == sOut.ret.items
        nLocked == Len(lockedItemsOf(ctx))
        chosenRings == { k \in RingPositions(items) : k > nLocked }
        pool == RingPoolOf(sDb, ctx)
    IN /\ Cardinality(RingPositions(items)) = 2
       /\ Cardinality(chosenRings) = Cardinality(OpenRingKeys(ctx))
       /\ \A k \in chosenRings : \E p \in 1..Len(pool) : pool[p] = items[k]
       /\ \A j, k \in chosenRings :
            j < k => \E p, q \in 1..Len(pool) : p < q /\ pool[p] = items[j] /\ pool[q] = items[k]
       /\ \A key \in {"ring1", "ring2"} \ OpenRingKeys(ctx) :
            \E k \in RingPositions(items) : k <= nLocked /\ items[k] = TheVal(ctx.lockedBySlot[key])
       /\ \A j, k \in 1..Len(items) : (j # k /\ k > nLocked) => items[j].name # items[k].name

\* A build was returned with no ring key locked: it holds two rings of the pool.
C32_Witness ==
  /\ sOut.op = "solveBuild"
  /\ IsBuild(sOut.ret)
  /\ OpenRingKeys(sOut.ctx) = {"ring1", "ring2"}
  /\ Cardinality({ sOut.ret.items[k].name : k \in RingPositions(sOut.ret.items) }) = 2


(***************************************************************************)
(* canEquipAllInSomeOrder against the enumeration of all orders.           *)
(***************************************************************************)
\* The items in the order p.
Reordered(items, p) == [k \in 1..Len(items) |-> items[p[k]]]

\* The list with the items at positions i and j exchanged.
Exchanged(items, i, j) ==
  [k \in 1..Len(items) |-> IF k = i THEN items[j] ELSE IF k = j THEN items[i] ELSE items[k]]

\* Every item of the list passes canEquipItemNow against the summed
\* effective bonuses of the items before it.
WearableInListOrder(items, budget, cap) ==
  \A pos \in 1..Len(items) :
    canEquipItemNow(items[pos].reqArr, totalBonusOf(items, pos - 1), budget, cap)

\* C33: canEquipAllInSomeOrder(items, B, C) returns true exactly when some
\* permutation of the items exists in which every item passes
\* canEquipItemNow against the summed effective bonuses of the items placed
\* before it, and it returns the same for the list with any two items
\* exchanged (every reordering is a sequence of such exchanges, and every
\* list of the items is among the lists called with).
C33_AgreesWithAllOrders ==
  CanEquipReturned =>
    /\ cOut.value = (\E p \in Perms(Len(cItems)) :
                       WearableInListOrder(Reordered(cItems, p), cBudget, cCap))
    /\ \A i, j \in 1..Len(cItems) :
         i < j => canEquipAllInSomeOrder(Exchanged(cItems, i, j), cBudget, cCap) = cOut.value

\* A call returned true for three items that cannot be worn in list order.
C33_Witness ==
  /\ CanEquipReturned
  /\ cOut.value = TRUE
  /\ Len(cItems) = 3
  /\ ~WearableInListOrder(cItems, cBudget, cCap)


\* C37: passesBaseFilters of the solver and passesFilters of the API give
\* the same verdict on every item in every context, and the call that
\* returned gave that verdict.
C37_SameVerdict ==
  FilterReturned =>
    /\ passesBaseFilters(fItem, fCtx) = passesFilters(fItem, fCtx)
    /\ fOut.value = passesFilters(fItem, fCtx)

\* passesBaseFilters rejected a weapon that fails the two class checks the
\* functions make in opposite order: a spear requiring a warrior, for a
\* mage.  And one that fails the two rarity checks, made in opposite order
\* as well.
C37_Witness ==
  /\ fOut.op = "passesBaseFilters"
  /\ ~fOut.value
  /\ fItem.levelReq <= fCtx.level
  /\ fCtx.class = "mage"
  /\ fCtx.strictWeaponClass
  /\ fItem.slot = "weapon"
  /\ fItem.weaponType = "spear"
  /\ fItem.classReq = "warrior"
  /\ fCtx.noMythic
  /\ fCtx.allowedRarities = {"Rare"}
  /\ fItem.rarity = "Mythic"


(***************************************************************************)
(* JavaScript numbers in the handlers' arithmetic.  A double holds every   *)
(* integer below 2^53, every second one below 2^54 and every fourth one    *)
(* below 2^55; the result of + and - is the exact result rounded to the    *)
(* nearest double, a tie going to the even significand.  The model scales  *)
(* the significand down to MantissaBits bits, so that the numbers fit the  *)
(* integers of the model checker: every integer below 2^MantissaBits, every*)
(* second one below 2^(MantissaBits+1), every fourth one above.            *)
(***************************************************************************)
MantissaBits == 20

ulpOf(n) ==
  IF n < Pow2(MantissaBits) THEN 1
  ELSE IF n < Pow2(MantissaBits + 1) THEN 2
  ELSE 4

\* Round to nearest, ties to even.
roundToDouble(n) ==
  LET e == ulpOf(n)
      q == n \div e
      r == n % e
  IN IF 2 * r < e THEN q * e
     ELSE IF 2 * r > e THEN (q + 1) * e
     ELSE IF q % 2 = 0 THEN q * e
     ELSE (q + 1) * e

\* a + b and a - b on numbers that are not negative.
plusNumber(a, b) == roundToDouble(a + b)
minusNumber(a, b) == IF a >= b THEN roundToDouble(a - b) ELSE 0 - roundToDouble(b - a)

\* The first integers past 2^(MantissaBits+1) that a double holds.
FarNumber(k) == Pow2(MantissaBits + 1) + 4 * k

(***************************************************************************)
(* api.js: the slot keys and the target of a request.  A key or slot that  *)
(* is null is "".  locks maps a key to Boolean(locks[key]); a key that is  *)
(* no property of it is not locked.                                        *)
(***************************************************************************)
GearKeys == <<"helmet", "chestplate", "leggings", "boots", "necklace", "bracelet",
              "ring1", "ring2", "weapon">>
slotOfKey(key) == IF key \in {"ring1", "ring2"} THEN "ring" ELSE key
GEAR_SLOT_KEYS == [i \in 1..Len(GearKeys) |-> [key |-> GearKeys[i], slot |-> slotOfKey(GearKeys[i])]]

isLockedKey(locks, key) == key \in DOMAIN locks /\ locks[key]
hasSelected(selectedItemsByKey, key) ==
  key \in DOMAIN selectedItemsByKey /\ IsSome(selectedItemsByKey[key])

\* A variant that hands out the requested key only while it is not locked.
targetSlotKey_SkipsLockedRequest(targetSlot, requestedKey, selectedItemsByKey, locks) ==
  IF targetSlot = "" THEN ""
  ELSE IF /\ requestedKey \in SeqToSet(GearKeys)
          /\ slotOfKey(requestedKey) = targetSlot
          /\ ~isLockedKey(locks, requestedKey) THEN requestedKey
  ELSE IF targetSlot # "ring" THEN targetSlot
  ELSE IF hasSelected(selectedItemsByKey, "ring1") /\ ~isLockedKey(locks, "ring1") THEN "ring1"
  ELSE IF hasSelected(selectedItemsByKey, "ring2") /\ ~isLockedKey(locks, "ring2") THEN "ring2"
  ELSE IF ~isLockedKey(locks, "ring1") THEN "ring1"
  ELSE IF ~isLockedKey(locks, "ring2") THEN "ring2"
  ELSE "ring1"

targetSlotKey(targetSlot, requestedKey, selectedItemsByKey, locks) ==
  IF targetSlot = "" THEN ""
  ELSE IF requestedKey \in SeqToSet(GearKeys) /\ slotOfKey(requestedKey) = targetSlot
       THEN requestedKey
  ELSE IF targetSlot # "ring" THEN targetSlot
  ELSE IF hasSelected(selectedItemsByKey, "ring1") /\ ~isLockedKey(locks, "ring1") THEN "ring1"
  ELSE IF hasSelected(selectedItemsByKey, "ring2") /\ ~isLockedKey(locks, "ring2") THEN "ring2"
  ELSE IF ~isLockedKey(locks, "ring1") THEN "ring1"
  ELSE IF ~isLockedKey(locks, "ring2") THEN "ring2"
  ELSE "ring1"

areBothRingsLocked(locks) == isLockedKey(locks, "ring1") /\ isLockedKey(locks, "ring2")

isActiveSlotTargetLocked(slot, slotTargetKey, locks) ==
  IF slot = "ring" /\ areBothRingsLocked(locks) THEN TRUE
  ELSE IF slotTargetKey = "" THEN FALSE
  ELSE isLockedKey(locks, slotTargetKey)

isTargetEntry(slotEntry, targetSlot, targetKey) ==
  IF targetSlot = "" THEN FALSE
  ELSE IF targetKey # "" THEN slotEntry.key = targetKey
  ELSE slotEntry.slot = targetSlot

(***************************************************************************)
(* api.js: POST /compatible, from the request body to the cache key and    *)
(* the response.  A body holds level and extraPoints, mustGiveStat,        *)
(* noNegativeNetSkillBonuses, minImprove, targetSlot, targetSlotKey,       *)
(* selected (a name per key, "" where the key is absent), locks, tomes and *)
(* sortBy; the other fields are absent, so that they take their fallback.  *)
(***************************************************************************)
CompatLimit == [fallback |-> 150, min |-> 10, max |-> 500]
CompatDebugLimit == [fallback |-> 80, min |-> 0, max |-> 200]
OutputSlots == <<"helmet", "chestplate", "leggings", "boots", "necklace", "bracelet",
                 "ring", "weapon">>

parseOptionalSafeNumber(value) ==
  IF value.t \in {"undefined", "null"} THEN None ELSE toNumber(value)

\* "const ctx = { level, class: cls, ... }" with budget = budgetBase + extraPoints.
compatibleCtx(body) ==
  LET level == parseSafeNumber(body.level, DefaultLevel, 1, None)
      extraPoints == parseSafeNumber(body.extraPoints, 0, 0, None)
  IN [ level |-> level, class |-> "", strictWeaponClass |-> TRUE,
       budget |-> plusNumber(skillBudgetFromLevel(level), extraPoints),
       allowedRarities |-> {}, minItemLevel |-> None, noMythic |-> FALSE,
       noCraftedBestEffort |-> FALSE, noNegativeItemSkillBonuses |-> FALSE,
       noNegativeNetSkillBonuses |-> parseBool(body.noNegativeNetSkillBonuses, FALSE),
       mustGiveStat |-> IF body.mustGiveStat = "" THEN None ELSE SKI(body.mustGiveStat),
       minImprove |-> parseOptionalSafeNumber(body.minImprove) ]

\* "for (const s of GEAR_SLOT_KEYS) { ... selectedItemsByKey[s.key] = it; }"
selectedItemsByKeyOf(d, selected) ==
  [ key \in SeqToSet(GearKeys) |->
      IF selected[key] = "" THEN None ELSE byNameGet(d, selected[key]) ]

selectedNames(selectedItemsByKey) ==
  { TheVal(selectedItemsByKey[key]).name :
      key \in { k \in DOMAIN selectedItemsByKey : IsSome(selectedItemsByKey[k]) } }

\* "for (const tName of tomesSelected)": the tomes of the catalog that are
\* not in use yet, each once.
RECURSIVE tomeItemsFrom(_, _, _, _)
tomeItemsFrom(d, names, k, usedNames) ==
  IF k > Len(names) THEN << >>
  ELSE LET it == byNameGet(d, names[k])
       IN IF IsSome(it) /\ TheVal(it).slot = "tome" /\ TheVal(it).name \notin usedNames
          THEN <<TheVal(it)>> \o tomeItemsFrom(d, names, k + 1, usedNames \cup {TheVal(it).name})
          ELSE tomeItemsFrom(d, names, k + 1, usedNames)

\* "for (const s of GEAR_SLOT_KEYS) { ...; if (!isLocked && isTarget) continue;
\* slotBase.push(it); }" over the first k entries; the loops that build
\* fixed ("if (isLocked || !isTarget) fixed.push(it)") are the same loop.
RECURSIVE keptGear(_, _, _, _, _)
keptGear(selectedItemsByKey, locks, targetSlot, targetKey, k) ==
  IF k = 0 THEN << >>
  ELSE LET s == GEAR_SLOT_KEYS[k]
           rest == keptGear(selectedItemsByKey, locks, targetSlot, targetKey, k - 1)
       IN IF ~IsSome(selectedItemsByKey[s.key]) THEN rest
          ELSE IF ~isLockedKey(locks, s.key) /\ isTargetEntry(s, targetSlot, targetKey) THEN rest
          ELSE Append(rest, TheVal(selectedItemsByKey[s.key]))

\* "addable": the selected items of the target entries that are not locked.
RECURSIVE addableGear(_, _, _, _, _)
addableGear(selectedItemsByKey, locks, targetSlot, targetKey, k) ==
  IF k = 0 THEN << >>
  ELSE LET s == GEAR_SLOT_KEYS[k]
           rest == addableGear(selectedItemsByKey, locks, targetSlot, targetKey, k - 1)
       IN IF /\ isTargetEntry(s, targetSlot, targetKey)
             /\ IsSome(selectedItemsByKey[s.key])
             /\ ~isLockedKey(locks, s.key)
          THEN Append(rest, TheVal(selectedItemsByKey[s.key]))
          ELSE rest

\* "let baseline = fixed.slice(); if (targetSlot) { ... }"
compatibleBaseline(selectedItemsByKey, locks, targetSlot, targetKey, fixed) ==
  IF /\ targetSlot # ""
     /\ \E k \in 1..Len(GEAR_SLOT_KEYS) :
          /\ isTargetEntry(GEAR_SLOT_KEYS[k], targetSlot, targetKey)
          /\ IsSome(selectedItemsByKey[GEAR_SLOT_KEYS[k].key])
  THEN fixed \o addableGear(selectedItemsByKey, locks, targetSlot, targetKey, Len(GEAR_SLOT_KEYS))
  ELSE fixed

\* The per-slot target key: "slot === 'ring' ? (targetSlot === 'ring' ?
\* resolvedTargetSlotKey : targetSlotKey('ring', '', ...)) : slot".
slotTargetKeyOf(slot, targetSlot, resolvedTargetSlotKey, selectedItemsByKey, locks) ==
  IF slot = "ring"
  THEN (IF targetSlot = "ring" THEN resolvedTargetSlotKey
        ELSE targetSlotKey("ring", "", selectedItemsByKey, locks))
  ELSE slot

slotBaseOf(selectedItemsByKey, locks, slot, slotTargetKey, tomeItems) ==
  keptGear(selectedItemsByKey, locks, slot, slotTargetKey, Len(GEAR_SLOT_KEYS)) \o tomeItems

\* "const currentSlotItem = ...; if (currentSlotItem &&
\* !slotBaseline.includes(currentSlotItem)) slotBaseline.push(currentSlotItem)"
slotBaselineOf(selectedItemsByKey, slotTargetKey, slotBase) ==
  IF /\ slotTargetKey # ""
     /\ hasSelected(selectedItemsByKey, slotTargetKey)
     /\ TheVal(selectedItemsByKey[slotTargetKey]) \notin SeqToSet(slotBase)
  THEN Append(slotBase, TheVal(selectedItemsByKey[slotTargetKey]))
  ELSE slotBase

\* A variant of the pool that keeps the items already in use.
slotPoolOf_KeepsUsed(d, slot, usedNames, ctx) ==
  SelectSeq(IF slot \in DOMAIN d.bySlot THEN d.bySlot[slot] ELSE << >>,
            LAMBDA it : passesFilters(it, ctx))

\* "(d.bySlot.get(slot) ?? []).filter(...)"
slotPoolOf(d, slot, usedNames, ctx) ==
  SelectSeq(IF slot \in DOMAIN d.bySlot THEN d.bySlot[slot] ELSE << >>,
            LAMBDA it : it.name \notin usedNames /\ passesFilters(it, ctx))

\* The body of "for (const cand of pool)" once st is known: the reason the
\* candidate fails ("" when it does not) and the entry pushed for it.
candidateOutcome(cand, st, slotBaseSpend, ctx) ==
  LET deltaRemaining == minusNumber(minusNumber(ctx.budget, st.finalSpend),
                                    minusNumber(ctx.budget, slotBaseSpend))
  IN [ fail |-> IF /\ ctx.noNegativeNetSkillBonuses
                   /\ \E k \in 1..5 : st.netBonus[k] < 0
                THEN "excluded negative net bonuses"
                ELSE IF st.finalSpend > ctx.budget THEN "fails final budget"
                ELSE IF ~st.equipOrderOk THEN "fails equip order"
                ELSE IF IsSome(ctx.minImprove) /\ deltaRemaining < TheVal(ctx.minImprove)
                     THEN "fails improvement threshold"
                ELSE "",
       entry |-> [ name |-> cand.name, rarity |-> cand.rarity, levelReq |-> cand.levelReq,
                   req |-> cand.reqArr, bonus |-> cand.bonusArr,
                   finalSpend |-> st.finalSpend,
                   remainingAfter |-> minusNumber(ctx.budget, st.finalSpend),
                   deltaRemaining |-> deltaRemaining,
                   negTradeoff |-> negSumArr(cand.bonusArr) ] ]

evaluateCandidate(cand, slotBase, slotBaseSpend, ctx) ==
  TheVal({ candidateOutcome(cand, st, slotBaseSpend, ctx) :
             st \in {computeBuildStats(Append(slotBase, cand), ctx.budget, DefaultPerSkillCap)} })

\* "a || b": b when a is 0.
orNumber(a, b) == IF a # 0 THEN a ELSE b

\* a.name.localeCompare(b.name) for two names of one slot, which the catalog
\* lists in that order.
localeCompare(names, a, b) == Position(names, a) - Position(names, b)

statSort(idx, names, a, b) ==
  orNumber(b.bonus[idx + 1] - a.bonus[idx + 1],
           orNumber(b.remainingAfter - a.remainingAfter, localeCompare(names, a.name, b.name)))

\* The comparator of compatible.sort.
compareCompatible(sortBy, names, a, b) ==
  CASE sortBy = "lowestFinalSpend" ->
         orNumber(a.finalSpend - b.finalSpend, b.remainingAfter - a.remainingAfter)
    [] sortBy = "lowestLevel" ->
         orNumber(a.levelReq - b.levelReq, b.remainingAfter - a.remainingAfter)
    [] sortBy = "leastNegative" ->
         orNumber(a.negTradeoff - b.negTradeoff, b.remainingAfter - a.remainingAfter)
    [] sortBy = "highestSTR" -> statSort(0, names, a, b)
    [] sortBy = "highestDEX" -> statSort(1, names, a, b)
    [] sortBy = "highestINT" -> statSort(2, names, a, b)
    [] sortBy = "highestDEF" -> statSort(3, names, a, b)
    [] sortBy = "highestAGI" -> statSort(4, names, a, b)
    [] OTHER ->
         orNumber(b.remainingAfter - a.remainingAfter,
                  orNumber(a.finalSpend - b.finalSpend, localeCompare(names, a.name, b.name)))

\* Array.prototype.sort, which is stable: x goes behind the last entry it
\* does not come before.
RECURSIVE insertCompatible(_, _, _, _, _)
insertCompatible(sorted, x, j, sortBy, names) ==
  IF j = 0 \/ compareCompatible(sortBy, names, x, sorted[j]) >= 0
  THEN SubSeq(sorted, 1, j) \o <<x>> \o SubSeq(sorted, j + 1, Len(sorted))
  ELSE insertCompatible(sorted, x, j - 1, sortBy, names)

RECURSIVE sortCompatible(_, _, _, _)
sortCompatible(list, k, sortBy, names) ==
  IF k = 0 THEN << >>
  ELSE LET sorted == sortCompatible(list, k - 1, sortBy, names)
       IN insertCompatible(sorted, list[k], Len(sorted), sortBy, names)

\* The candidates of the pool that do not fail, in pool order.
RECURSIVE compatibleOfPool(_, _, _, _, _)
compatibleOfPool(pool, k, slotBase, slotBaseSpend, ctx) ==
  IF k = 0 THEN << >>
  ELSE LET rest == compatibleOfPool(pool, k - 1, slotBase, slotBaseSpend, ctx)
           out == evaluateCandidate(pool[k], slotBase, slotBaseSpend, ctx)
       IN IF out.fail # "" THEN rest ELSE Append(rest, out.entry)

catalogNames(d, slot) ==
  IF slot \in DOMAIN d.bySlot THEN [k \in 1..Len(d.bySlot[slot]) |-> d.bySlot[slot][k].name]
  ELSE << >>

\* One turn of "for (const slot of outputSlots)": results[slot].
slotResults(d, ctx, selectedItemsByKey, locks, tomeItems, usedNames, slot, slotTargetKey, sortBy, limit) ==
  IF isActiveSlotTargetLocked(slot, slotTargetKey, locks) THEN << >>
  ELSE LET slotBase == slotBaseOf(selectedItemsByKey, locks, slot, slotTargetKey, tomeItems)
           pool == slotPoolOf(d, slot, usedNames, ctx)
       IN TheVal({ LET compatible == compatibleOfPool(pool, Len(pool), slotBase,
                                                      slotBaseStats.finalSpend, ctx)
                       sorted == sortCompatible(compatible, Len(compatible), sortBy,
                                                catalogNames(d, slot))
                   IN SubSeq(sorted, 1, Min2(limit, Len(sorted))) :
                   slotBaseStats \in
                     { computeBuildStats(slotBaselineOf(selectedItemsByKey, slotTargetKey, slotBase),
                                         ctx.budget, DefaultPerSkillCap) } })

\* "const response = { ok: true, level, ... }" once the base statistics are
\* known.  dataState, which is the snapshot's, and debugExcluded, which is
\* null without debug, are left out.
compatibleResponseWith(d, body, ctx, selectedItemsByKey, resolvedTargetSlotKey, tomeItems, baseline, baseStats) ==
  LET usedNames == selectedNames(selectedItemsByKey) \cup NamesOf(tomeItems)
      outputSlots == IF body.targetSlot # "" THEN <<body.targetSlot>> ELSE OutputSlots
      keyOfSlot(slot) == slotTargetKeyOf(slot, body.targetSlot, resolvedTargetSlotKey,
                                         selectedItemsByKey, body.locks)
      limit == parseSafeNumber(Absent, CompatLimit.fallback, CompatLimit.min,
                               Some(CompatLimit.max))
  IN [ ok |-> TRUE,
       level |-> ctx.level,
       class |-> ctx.class,
       budgetBase |-> skillBudgetFromLevel(ctx.level),
       extraPoints |-> parseSafeNumber(body.extraPoints, 0, 0, None),
       budget |-> ctx.budget,
       baseline |-> [ finalSpend |-> baseStats.finalSpend,
                      remainingSP |-> baseStats.remainingSP,
                      equipOrderOk |-> baseStats.equipOrderOk ],
       allocationPreview |->
         IF baseStats.remainingSP >= 0
         THEN [ k \in 1..Len(baseStats.allocs) |->
                  [ name |-> baseStats.allocs[k].name,
                    used |-> baseStats.allocs[k].used,
                    remaining |-> minusNumber(ctx.budget, baseStats.allocs[k].used),
                    alloc |-> baseStats.allocs[k].alloc ] ]
         ELSE << >>,
       setSynergy |-> [ count |-> Cardinality({ k \in 1..Len(baseline) :
                                                  toLowerCase(baseline[k].rarity) = "set" }) ],
       results |-> [ slot \in SeqToSet(outputSlots) |->
                       slotResults(d, ctx, selectedItemsByKey, body.locks, tomeItems, usedNames,
                                   slot, keyOfSlot(slot), body.sortBy, limit) ],
       notes |-> SelectSeq(outputSlots,
                           LAMBDA slot : isActiveSlotTargetLocked(slot, keyOfSlot(slot),
                                                                  body.locks)) ]

\* The handler past the cache lookup: what a request computes.
compatibleCompute(d, body) ==
  LET ctx == compatibleCtx(body)
      selectedItemsByKey == selectedItemsByKeyOf(d, body.selected)
      resolvedTargetSlotKey == targetSlotKey(body.targetSlot, body.targetSlotKey,
                                             selectedItemsByKey, body.locks)
      tomeItems == tomeItemsFrom(d, body.tomes, 1, selectedNames(selectedItemsByKey))
      fixed == keptGear(selectedItemsByKey, body.locks, body.targetSlot, resolvedTargetSlotKey,
                        Len(GEAR_SLOT_KEYS)) \o tomeItems
      baseline == compatibleBaseline(selectedItemsByKey, body.locks, body.targetSlot,
                                     resolvedTargetSlotKey, fixed)
  IN TheVal({ compatibleResponseWith(d, body, ctx, selectedItemsByKey, resolvedTargetSlotKey,
                                     tomeItems, baseline, baseStats) :
                baseStats \in {computeBuildStats(baseline, ctx.budget, DefaultPerSkillCap)} })

\* "stableKey({ ctx, selected, locks, tomesSelected, targetSlot, targetSlotKey:
\* resolvedTargetSlotKey, sortBy, limit, debug, debugLimit })": the members
\* of the object, which the JSON text tells apart.  The text leaves out a
\* member that is undefined, as ctx.mustGiveStat is for an unknown name (""
\* below), and writes null for one that is null.
cacheKeyOf(d, body) ==
  LET ctx == compatibleCtx(body)
      selectedItemsByKey == selectedItemsByKeyOf(d, body.selected)
  IN [ ctx |-> ctx,
       mustGiveStat |-> IF body.mustGiveStat = "" THEN "null"
                        ELSE IF SKI(body.mustGiveStat) = None THEN ""
                        ELSE ToString(TheVal(SKI(body.mustGiveStat))),
       selected |-> body.selected,
       locks |-> body.locks,
       tomesSelected |-> body.tomes,
       targetSlot |-> body.targetSlot,
       targetSlotKey |-> targetSlotKey(body.targetSlot, body.targetSlotKey,
                                       selectedItemsByKey, body.locks),
       sortBy |-> body.sortBy,
       limit |-> parseSafeNumber(Absent, CompatLimit.fallback, CompatLimit.min,
                                 Some(CompatLimit.max)),
       debug |-> parseBool(Absent, FALSE),
       debugLimit |-> parseSafeNumber(Absent, CompatDebugLimit.fallback, CompatDebugLimit.min,
                                      Some(CompatDebugLimit.max)) ]

(***************************************************************************)
(* api.js: POST /explain, from the request body to the response.           *)
(***************************************************************************)
\* "let baseline = fixed.slice(); for (...) { ...; baseline.push(it); break; }":
\* the first selected item of a target entry that is not locked.
explainBaseline(selectedItemsByKey, locks, targetSlot, targetKey, fixed) ==
  LET addable == addableGear(selectedItemsByKey, locks, targetSlot, targetKey,
                             Len(GEAR_SLOT_KEYS))
  IN IF addable = << >> THEN fixed ELSE Append(fixed, addable[1])

explainCompute(d, body, itemName) ==
  LET cand == byNameGet(d, itemName)
      ctx == compatibleCtx(body)
      selectedItemsByKey == selectedItemsByKeyOf(d, body.selected)
      tomeItems == tomeItemsFrom(d, body.tomes, 1, selectedNames(selectedItemsByKey))
      resolvedTargetSlotKey == targetSlotKey(body.targetSlot, body.targetSlotKey,
                                             selectedItemsByKey, body.locks)
      resolvedTargetSlotFamily ==
        IF resolvedTargetSlotKey \in SeqToSet(GearKeys) THEN slotOfKey(resolvedTargetSlotKey)
        ELSE ""
      expectedSlotFamily == IF body.targetSlot # "" THEN body.targetSlot
                            ELSE resolvedTargetSlotFamily
      fixed == keptGear(selectedItemsByKey, body.locks, body.targetSlot, resolvedTargetSlotKey,
                        Len(GEAR_SLOT_KEYS)) \o tomeItems
      baseline == explainBaseline(selectedItemsByKey, body.locks, body.targetSlot,
                                  resolvedTargetSlotKey, fixed)
  IN IF ~IsSome(cand) THEN [ok |-> FALSE, error |-> "Item not found"]
     ELSE IF /\ expectedSlotFamily # ""
             /\ isActiveSlotTargetLocked(expectedSlotFamily, resolvedTargetSlotKey, body.locks)
          THEN [ok |-> TRUE, item |-> itemName, passes |-> FALSE, reason |-> "slot locked"]
     ELSE IF expectedSlotFamily # "" /\ TheVal(cand).slot # expectedSlotFamily
          THEN [ok |-> TRUE, item |-> itemName, passes |-> FALSE,
                reason |-> "fails slot mismatch"]
     ELSE TheVal({ [ok |-> TRUE, item |-> itemName, passes |-> reason = "", reason |-> reason] :
                   reason \in { reasonFails(TheVal(cand), ctx, fixed, <<TheVal(cand)>>,
                                            Some(computeBuildStats(baseline, ctx.budget,
                                                                   DefaultPerSkillCap).finalSpend)) } })

(***************************************************************************)
(* Requests to /compatible and /explain on one catalog snapshot.  The      *)
(* catalog holds three helmets, three rings and a tome: a helmet and a     *)
(* ring that need each other's bonus, a helmet that takes strength away, a *)
(* helmet that costs two points, a ring that gives strength and a plain    *)
(* ring.  The response cache starts empty; the runs follow the first       *)
(* request and the requests after it that find its entry.                  *)
(***************************************************************************)
apiDb ==
  LET bySlot == [ slot \in {"helmet", "ring", "tome"} |->
                    CASE slot = "helmet" ->
                           << mkItem("helmet-a", "helmet", 1, <<0, 1, 0, 0, 0>>, <<1, 0, 0, 0, 0>>),
                              mkItem("helmet-b", "helmet", 1, Zero5, <<-1, 0, 0, 0, 0>>),
                              mkItem("helmet-c", "helmet", 2, <<2, 0, 0, 0, 0>>, Zero5) >>
                      [] slot = "ring" ->
                           << mkItem("ring-a", "ring", 1, Zero5, <<1, 0, 0, 0, 0>>),
                              mkItem("ring-b", "ring", 1, <<1, 0, 0, 0, 0>>, <<0, 1, 0, 0, 0>>),
                              mkItem("ring-c", "ring", 1, Zero5, Zero5) >>
                      [] OTHER -> << mkItem("tome-a", "tome", 1, Zero5, <<1, 0, 0, 0, 0>>) >> ]
      items == UNION { SeqToSet(bySlot[slot]) : slot \in DOMAIN bySlot }
  IN [ bySlot |-> bySlot,
       byName |-> [ name \in { it.name : it \in items } |->
                      CHOOSE it \in items : it.name = name ] ]

\* selected and locks of a body: the three keys in use, the others absent.
apiSelected(helmet, ring1, ring2) ==
  [ key \in SeqToSet(GearKeys) |->
      CASE key = "helmet" -> helmet [] key = "ring1" -> ring1 [] key = "ring2" -> ring2
        [] OTHER -> "" ]
apiLocks(locked) == [ key \in SeqToSet(GearKeys) |-> key \in locked ]

apiBody(level, extraPoints, mustGiveStat, noNeg, minImprove, targetSlot, requestedKey,
        selected, locks, tomes, sortBy) ==
  [ level |-> Num(level), extraPoints |-> Num(extraPoints), mustGiveStat |-> mustGiveStat,
    noNegativeNetSkillBonuses |-> noNeg, minImprove |-> minImprove,
    targetSlot |-> targetSlot, targetSlotKey |-> requestedKey,
    selected |-> selected, locks |-> locks, tomes |-> tomes, sortBy |-> sortBy ]

\* Requests that differ in the target, the selection and the locks.
TargetBodies ==
  { apiBody(2, 0, "", Absent, Absent, targetSlot, requestedKey,
            apiSelected(helmet, ring1, ring2), apiLocks(locked), << >>, "bestRemaining") :
      targetSlot \in {"", "helmet", "ring"}, requestedKey \in {"", "ring1", "ring2"},
      helmet \in {"", "helmet-c"}, ring1 \in {"", "ring-b"}, ring2 \in {"", "ring-c"},
      locked \in SUBSET {"helmet", "ring1", "ring2"} }

\* Requests that differ in the budget, the filters and the base items.
FilterBodies ==
  { apiBody(level, extraPoints, mustGiveStat, noNeg, minImprove, targetSlot, "",
            apiSelected(helmet, ring1, ""), apiLocks(locked), tomes, "bestRemaining") :
      level \in {1, 2}, extraPoints \in {0, 2}, mustGiveStat \in {"", "strength"},
      noNeg \in {Absent, Bool(TRUE)}, minImprove \in {Absent, Num(0)},
      targetSlot \in {"helmet", "ring"},
      helmet \in {"", "helmet-b"}, ring1 \in {"", "ring-b"}, locked \in {{}, {"ring1"}},
      tomes \in {<< >>, <<"tome-a">>} }

\* Requests that differ in the sort order.
OrderBodies ==
  { apiBody(2, 2, "", Absent, Absent, "ring", "", apiSelected("", "", ""), apiLocks({}), << >>,
            sortBy) :
      sortBy \in {"bestRemaining", "lowestFinalSpend", "lowestLevel", "leastNegative",
                  "highestSTR", "highestDEX"} }

\* Requests that differ in extra points of which a double holds every fourth.
FarBodies ==
  { apiBody(2, FarNumber(k), "", Absent, Absent, "ring", "", apiSelected("", "", ""),
            apiLocks({}), << >>, "bestRemaining") : k \in {1, 2} }

ApiBodies == TargetBodies \cup FilterBodies \cup OrderBodies \cup FarBodies
ApiItemNames == {"helmet-a", "ring-a", "ring-b", "helmet-x"}

ApiInit ==
  /\ UiParked
  /\ sDb = apiDb
  /\ sOut = NoCall
  /\ cache = LRUCache_new(ResponseCacheMax)
  /\ lruRet = NoGet
  /\ lruUsed = << >>
  /\ lruSetOrder = << >>
  /\ CompatParked
  /\ SrvParked
  /\ KeyParked
  /\ LevelParked
  /\ FilterParked

\* POST /compatible whose key is not in the cache: the response is computed
\* and stored.
CompatibleMiss ==
  \E body \in ApiBodies :
    /\ sOut = NoCall
    /\ cache.map = << >>
    /\ ~LRUCache_getValue(cache, cacheKeyOf(sDb, body)).hit
    /\ cache' = LRUCache_set(LRUCache_get(cache, cacheKeyOf(sDb, body)),
                             cacheKeyOf(sDb, body), compatibleCompute(sDb, body))
    /\ sOut' = [ op |-> "compatible", body |-> body, hit |-> FALSE,
                 ret |-> mapGet(cache'.map, cacheKeyOf(sDb, body)) ]
    /\ UNCHANGED <<sDb, lruRet, lruUsed, lruSetOrder, compatVars, srvVars, keyVars, lvlVars,
                   filterVars, uiVars>>

\* POST /compatible whose key is in the cache: "if (cached) return
\* res.json(cached)".
CompatibleHit ==
  \E body \in ApiBodies :
    /\ LRUCache_getValue(cache, cacheKeyOf(sDb, body)).hit
    /\ cache' = LRUCache_get(cache, cacheKeyOf(sDb, body))
    /\ sOut' = [ op |-> "compatible", body |-> body, hit |-> TRUE,
                 ret |-> LRUCache_getValue(cache, cacheKeyOf(sDb, body)).value ]
    /\ UNCHANGED <<sDb, lruRet, lruUsed, lruSetOrder, compatVars, srvVars, keyVars, lvlVars,
                   filterVars, uiVars>>

\* POST /explain, which does not use the cache.
ExplainRequest ==
  \E body \in TargetBodies, itemName \in ApiItemNames :
    /\ sOut = NoCall
    /\ sOut' = [ op |-> "explain", body |-> body, itemName |-> itemName,
                 ret |-> explainCompute(sDb, body, itemName) ]
    /\ UNCHANGED <<sDb, lruVars, compatVars, srvVars, keyVars, lvlVars, filterVars, uiVars>>

ApiNext ==
  \/ CompatibleMiss
  \/ CompatibleHit
  \/ ExplainRequest

SpecApi == ApiInit /\ [][ApiNext]_vars

\* C34 (as the claim states it): the response of a /compatible request, read
\* from the cache or not, is the response that computing the request gives.
C34_AsClaimed ==
  sOut.op = "compatible" => sOut.ret = compatibleCompute(sDb, sOut.body)

\* The request of the last /compatible call, as the handler reads it.
ApiCtx == compatibleCtx(sOut.body)
ApiSelected == selectedItemsByKeyOf(sDb, sOut.body.selected)
ApiResolvedKey ==
  targetSlotKey(sOut.body.targetSlot, sOut.body.targetSlotKey, ApiSelected, sOut.body.locks)

\* The chosen tomes: the names of the tome list that are tomes of the
\* catalog and not selected as gear.
ChosenTomes ==
  SelectSeq(sOut.body.tomes,
            LAMBDA name : /\ name \in DOMAIN sDb.byName
                          /\ sDb.byName[name].slot = "tome"
                          /\ name \notin selectedNames(ApiSelected))

\* The key a candidate of the slot would go to.
ApiSlotKey(slot) ==
  slotTargetKeyOf(slot, sOut.body.targetSlot, ApiResolvedKey, ApiSelected, sOut.body.locks)

\* The base items of a slot: the selected items of every key but the slot's
\* target key, the selected item of the target key when that key is locked,
\* and the chosen tomes.
SlotBaseKeys(slot) ==
  SelectSeq(GearKeys,
            LAMBDA key : /\ IsSome(ApiSelected[key])
                         /\ (key # ApiSlotKey(slot) \/ sOut.body.locks[key]))
SlotBaseItems(slot) ==
  [ i \in 1..Len(SlotBaseKeys(slot)) |-> TheVal(ApiSelected[SlotBaseKeys(slot)[i]]) ]
    \o [ i \in 1..Len(ChosenTomes) |-> sDb.byName[ChosenTomes[i]] ]

\* The baseline of a slot: its base items and the item the target key holds.
SlotBaselineItems(slot) ==
  IF /\ ApiSlotKey(slot) \in SeqToSet(GearKeys)
     /\ IsSome(ApiSelected[ApiSlotKey(slot)])
     /\ ~sOut.body.locks[ApiSlotKey(slot)]
  THEN Append(SlotBaseItems(slot), TheVal(ApiSelected[ApiSlotKey(slot)]))
  ELSE SlotBaseItems(slot)

ListedNames(slot) ==
  { sOut.ret.results[slot][k].name : k \in 1..Len(sOut.ret.results[slot]) }

\* What the claim asks of a candidate listed for a slot.
ListedProperly(slot, cand) ==
  LET build == Append(SlotBaseItems(slot), cand)
  IN /\ cand.slot = slot
     /\ passesFilters(cand, ApiCtx)
     /\ cand.name \notin selectedNames(ApiSelected) \cup SeqToSet(ChosenTomes)
     /\ minFinalSpend(build) <= ApiCtx.budget
     /\ canEquipAllInSomeOrder(build, ApiCtx.budget, DefaultPerSkillCap)
     /\ ApiCtx.noNegativeNetSkillBonuses
          => \A k \in 1..5 : totalBonusOf(build, Len(build))[k] >= 0
     /\ IsSome(ApiCtx.minImprove)
          => (ApiCtx.budget - minFinalSpend(build))
               - (ApiCtx.budget - minFinalSpend(SlotBaselineItems(slot)))
             >= TheVal(ApiCtx.minImprove)

\* C35: every candidate that /compatible lists for a slot is an item of that
\* slot that passes the filter, is neither selected nor a chosen tome, and
\* with the base items of the slot stays within the budget, can be equipped
\* in some order, has no negative net bonus when noNegativeNetSkillBonuses
\* is set, and leaves at least minImprove more points than the slot's
\* baseline when minImprove is set.
C35_ListedCandidates ==
  sOut.op = "compatible" =>
    \A slot \in DOMAIN sOut.ret.results :
      \A name \in ListedNames(slot) : ListedProperly(slot, sDb.byName[name])

\* A request with a filter, both toggles, a tome and a selected helmet: a
\* ring is listed for it, and a ring of the catalog is not.
C35_Witness ==
  /\ sOut.op = "compatible"
  /\ ~sOut.hit
  /\ sOut.body.mustGiveStat = "strength"
  /\ sOut.body.noNegativeNetSkillBonuses = Bool(TRUE)
  /\ sOut.body.minImprove = Num(0)
  /\ sOut.body.tomes = <<"tome-a">>
  /\ sOut.body.selected["helmet"] = "helmet-b"
  /\ sOut.body.targetSlot = "ring"
  /\ ListedNames("ring") = {"ring-a"}

\* The selected items whose key is locked.
LockedSelected ==
  { TheVal(ApiSelected[key]) :
      key \in { k \in SeqToSet(GearKeys) : sOut.body.locks[k] /\ IsSome(ApiSelected[k]) } }

\* The target of a slot is locked: the key of the slot; for rings both keys,
\* or the ring key that the request asks for.
SlotTargetLocked(slot) ==
  IF slot = "ring"
  THEN \/ sOut.body.locks["ring1"] /\ sOut.body.locks["ring2"]
       \/ /\ sOut.body.targetSlot = "ring"
          /\ sOut.body.targetSlotKey \in {"ring1", "ring2"}
          /\ sOut.body.locks[sOut.body.targetSlotKey]
  ELSE slot \in SeqToSet(GearKeys) /\ sOut.body.locks[slot]

\* One ring key is locked, the other is not, and the request names no key.
OneRingLocked ==
  /\ sOut.body.locks["ring1"] # sOut.body.locks["ring2"]
  /\ sOut.body.targetSlotKey = ""
UnlockedRingKey == IF sOut.body.locks["ring1"] THEN "ring2" ELSE "ring1"

\* The base set of /explain, as the handler builds it.
ExplainFixed ==
  keptGear(ApiSelected, sOut.body.locks, sOut.body.targetSlot, ApiResolvedKey,
           Len(GEAR_SLOT_KEYS))
    \o tomeItemsFrom(sDb, sOut.body.tomes, 1, selectedNames(ApiSelected))

\* C36: in /compatible and /explain the selected items of locked keys are in
\* the base set that candidates are evaluated against, and the spend
\* reported for a listed candidate is that of the candidate with this base;
\* a slot whose target is locked lists no candidate and no candidate is
\* explained as passing for it; with one ring key locked and no key
\* requested, the ring target is the other key.
C36_LocksRespected ==
  /\ sOut.op = "compatible" =>
       \A slot \in DOMAIN sOut.ret.results :
         /\ SlotTargetLocked(slot) => sOut.ret.results[slot] = << >>
         /\ ~SlotTargetLocked(slot) =>
              /\ LockedSelected
                   \subseteq SeqToSet(slotBaseOf(ApiSelected, sOut.body.locks, slot,
                                                 ApiSlotKey(slot), << >>))
              /\ LockedSelected \subseteq SeqToSet(SlotBaseItems(slot))
         /\ \A k \in 1..Len(sOut.ret.results[slot]) :
              sOut.ret.results[slot][k].finalSpend
                = minFinalSpend(Append(SlotBaseItems(slot),
                                       sDb.byName[sOut.ret.results[slot][k].name]))
         /\ (slot = "ring" /\ OneRingLocked) => ApiSlotKey("ring") = UnlockedRingKey
  /\ (sOut.op = "explain" /\ sOut.body.targetSlot # "" /\ sOut.ret.ok) =>
       /\ SlotTargetLocked(sOut.body.targetSlot) => ~sOut.ret.passes
       /\ ~SlotTargetLocked(sOut.body.targetSlot) =>
            /\ sOut.ret.reason # "slot locked"
            /\ LockedSelected \subseteq SeqToSet(ExplainFixed)
       /\ (sOut.body.targetSlot = "ring" /\ OneRingLocked) => ApiResolvedKey = UnlockedRingKey

\* /compatible for the rings with ring1 locked and no key requested: rings
\* are listed, each with the spend that the locked ring-b brings along.
C36_Witness ==
  /\ sOut.op = "compatible"
  /\ sOut.body.targetSlot = "ring"
  /\ sOut.body.targetSlotKey = ""
  /\ sOut.body.locks["ring1"]
  /\ ~sOut.body.locks["ring2"]
  /\ sOut.body.selected["ring1"] = "ring-b"
  /\ sOut.body.selected["ring2"] = "ring-c"
  /\ sOut.ret.results["ring"] # << >>
  /\ \A k \in 1..Len(sOut.ret.results["ring"]) : sOut.ret.results["ring"][k].finalSpend >= 1

(***************************************************************************)
(* public/app.js: the page.  ui holds state.selected, state.locks,         *)
(* state.ringTargetKey, state.lastResponse, the counter refreshSeq, what   *)
(* the status and results panes show, and the variables that the closure   *)
(* of one slot input keeps (requestSeq, latestResultSeq, lastItems,        *)
(* inflightController) with what its suggestion list shows.  calls holds   *)
(* every apiJson call made: the function that made it, the sequence        *)
(* number it took, whether its controller was aborted, and the position    *)
(* among the calls of its function at which its promise settled (0 while   *)
(* it is in flight).                                                       *)
(***************************************************************************)
MaxCalls == 3

\* The slot input whose closure is modelled.
SearchKey == "helmet"

\* The page as the script leaves it before any request.
uiStart(selected, locks) ==
  [ selected |-> selected, locks |-> locks, ringTargetKey |-> "ring1",
    refreshSeq |-> 0, lastResponse |-> JsNull, pane |-> [show |-> "empty"],
    requestSeq |-> 0, latestResultSeq |-> 0, lastItems |-> << >>,
    inflightController |-> None, list |-> [show |-> "hidden", loading |-> FALSE] ]

NothingSelected == [key \in LockKeys |-> ""]
NothingLocked == [key \in LockKeys |-> FALSE]

\* A call as apiJson starts it.
newCall(fn, seq) == [fn |-> fn, seq |-> seq, aborted |-> FALSE, settled |-> 0]
InFlight(fn) == { c \in calls : c.fn = fn /\ c.settled = 0 }
SettledCount(fn) == Cardinality({ c \in calls : c.fn = fn /\ c.settled # 0 })
settle(c) == (calls \ {c}) \cup {[c EXCEPT !.settled = SettledCount(c.fn) + 1]}

\* The answers of the server to the call seq of a function.
RefreshAnswers(seq) == { [of |-> seq] }
SearchAnswers(seq) == { [of |-> seq, results |-> names] : names \in {<< >>, <<"helmet-n">>} }

\* refresh() up to its await: the counter advances and the panes are cleared.
refreshIssued(u) == [u EXCEPT !.refreshSeq = @ + 1, !.pane = [show |-> "loading"]]

\* A variant of the continuation that does not compare the sequence numbers.
refreshResolved_NoSeqCheck(u, seq, json) ==
  [u EXCEPT !.lastResponse = json, !.pane = [show |-> "results", of |-> json.of]]

\* refresh() after its await when the promise fulfils with json.
refreshResolved(u, seq, json) ==
  IF seq # u.refreshSeq THEN u
  ELSE [u EXCEPT !.lastResponse = json, !.pane = [show |-> "results", of |-> json.of]]

\* refresh() after its await when the promise rejects.
refreshRejected(u, seq) ==
  IF seq # u.refreshSeq THEN u
  ELSE [u EXCEPT !.pane = [show |-> "error", of |-> seq]]

\* closeList of the slot input.
closeList(u) ==
  [u EXCEPT !.list = [show |-> "hidden", loading |-> FALSE], !.lastItems = << >>]

\* doSearch() up to its await.
doSearchIssued(u) ==
  [u EXCEPT !.requestSeq = @ + 1, !.inflightController = Some(u.requestSeq + 1),
            !.list = [show |-> "loading", loading |-> TRUE]]

\* The finally block of doSearch() for the call seq.
doSearchFinally(u, seq) ==
  IF seq # u.requestSeq THEN u
  ELSE [u EXCEPT !.inflightController = IF @ = Some(seq) THEN None ELSE @,
                 !.list = [@ EXCEPT !.loading = FALSE]]

\* doSearch() after its await when the promise fulfils with json.
doSearchResolved(u, seq, json) ==
  IF seq # u.requestSeq THEN doSearchFinally(u, seq)
  ELSE doSearchFinally(
         [u EXCEPT !.latestResultSeq = seq, !.lastItems = json.results,
                   !.list = IF Len(json.results) > 0
                            THEN [show |-> "results", of |-> json.of, loading |-> @.loading]
                            ELSE [show |-> "hidden", of |-> json.of, loading |-> @.loading]],
         seq)

\* doSearch() after its await when the promise rejects with an error of
\* the given name, the input having the focus or not.
doSearchRejected(u, seq, errName, focused) ==
  IF seq # u.requestSeq THEN doSearchFinally(u, seq)
  ELSE IF errName = "AbortError" THEN doSearchFinally(u, seq)
  ELSE doSearchFinally(
         IF focused THEN [closeList(u) EXCEPT !.list = [show |-> "error", of |-> seq,
                                                        loading |-> FALSE]]
         ELSE closeList(u),
         seq)

UiInit ==
  /\ ui = uiStart(NothingSelected, NothingLocked)
  /\ calls = {}
  /\ CompatParked
  /\ LruParked
  /\ SolveParked
  /\ SrvParked
  /\ KeyParked
  /\ LevelParked
  /\ FilterParked

UiFrame == UNCHANGED <<compatVars, lruVars, solveVars, srvVars, keyVars, lvlVars, filterVars>>

\* refresh() is called: by a control, a timer or another handler.
Refresh ==
  /\ ui.refreshSeq < MaxCalls
  /\ ui' = refreshIssued(ui)
  /\ calls' = calls \cup {newCall("refresh", ui.refreshSeq + 1)}
  /\ UiFrame

\* The answer to a refresh() call arrives.
RefreshResolves ==
  \E c \in InFlight("refresh") : \E json \in RefreshAnswers(c.seq) :
    /\ ui' = refreshResolved(ui, c.seq, json)
    /\ calls' = settle(c)
    /\ UiFrame

\* A refresh() call fails.
RefreshRejects ==
  \E c \in InFlight("refresh") :
    /\ ui' = refreshRejected(ui, c.seq)
    /\ calls' = settle(c)
    /\ UiFrame

\* doSearch() is called: the controller of the previous call is aborted.
DoSearch ==
  /\ ui.requestSeq < MaxCalls
  /\ ui' = doSearchIssued(ui)
  /\ calls' = { IF c.fn = "doSearch" /\ c.settled = 0 /\ ui.inflightController = Some(c.seq)
                THEN [c EXCEPT !.aborted = TRUE] ELSE c : c \in calls }
                \cup {newCall("doSearch", ui.requestSeq + 1)}
  /\ UiFrame

\* The answer to a doSearch() call arrives: an aborted call may still have
\* been answered before the abort took effect.
DoSearchResolves ==
  \E c \in InFlight("doSearch") : \E json \in SearchAnswers(c.seq) :
    /\ ui' = doSearchResolved(ui, c.seq, json)
    /\ calls' = settle(c)
    /\ UiFrame

\* A doSearch() call fails: with an AbortError when it was aborted, with
\* another error otherwise.
DoSearchRejects ==
  \E c \in InFlight("doSearch") : \E focused \in BOOLEAN :
    /\ ui' = doSearchRejected(ui, c.seq, IF c.aborted THEN "AbortError" ELSE "TypeError",
                              focused)
    /\ calls' = settle(c)
    /\ UiFrame

\* A suggestion of the list is picked: the selection changes, the list
\* closes and refresh() is called.
PickSuggestion ==
  \E i \in 1..Len(ui.lastItems) :
    /\ ui.list.show = "results"
    /\ ui.refreshSeq < MaxCalls
    /\ ui' = refreshIssued(closeList([ui EXCEPT !.selected[SearchKey] = ui.lastItems[i]]))
    /\ calls' = calls \cup {newCall("refresh", ui.refreshSeq + 1)}
    /\ UiFrame

UiNext ==
  \/ Refresh
  \/ RefreshResolves
  \/ RefreshRejects
  \/ DoSearch
  \/ DoSearchResolves
  \/ DoSearchRejects
  \/ PickSuggestion

SpecUi == UiInit /\ [][UiNext]_vars

\* The counter that the calls of a function take their numbers from.
counterOf(u, fn) == IF fn = "refresh" THEN u.refreshSeq ELSE u.requestSeq

\* The calls that settle in a step.
SettlingNow == { c \in calls : c.settled = 0 /\ c \notin calls' }

\* C38: when several refresh() calls, or several doSearch() calls of one
\* slot input, are in flight, only the answer of the most recently issued
\* call is stored or shown: the arrival of an answer or an error for an
\* earlier call changes nothing on the page, in whatever order the calls
\* settle, and whenever state.lastResponse, the panes, latestResultSeq or
\* the suggestion list take the answer of a call, that call is the latest
\* one of its function.
C38_OnlyLatest ==
  [][ /\ \A c \in SettlingNow : c.seq # counterOf(ui, c.fn) => ui' = ui
      /\ ui'.lastResponse # ui.lastResponse => ui'.lastResponse.of = ui'.refreshSeq
      /\ (ui'.pane # ui.pane /\ ui'.pane.show \in {"results", "error"})
           => ui'.pane.of = ui'.refreshSeq
      /\ ui'.latestResultSeq # ui.latestResultSeq => ui'.latestResultSeq = ui'.requestSeq
      /\ (ui'.list # ui.list /\ ui'.list.show \in {"results", "error"})
           => ui'.list.of = ui'.requestSeq ]_vars

\* Two refresh() calls and two doSearch() calls were made; in both pairs
\* the later call was answered first and the earlier call settled after
\* it, and the page holds the answers of the later calls.
C38_Witness ==
  /\ \E c1, c2 \in calls :
       /\ c1.fn = "refresh" /\ c2.fn = "refresh"
       /\ c1.seq = 1 /\ c2.seq = 2
       /\ c2.settled # 0 /\ c1.settled > c2.settled
  /\ \E d1, d2 \in calls :
       /\ d1.fn = "doSearch" /\ d2.fn = "doSearch"
       /\ d1.seq = 1 /\ d2.seq = 2
       /\ d2.settled # 0 /\ d1.settled > d2.settled
  /\ ui.refreshSeq = 2 /\ ui.requestSeq = 2
  /\ ui.lastResponse = [of |-> 2]
  /\ ui.pane = [show |-> "results", of |-> 2]
  /\ ui.latestResultSeq = 2
  /\ ui.list.show = "results" /\ ui.list.of = 2

(***************************************************************************)
(* public/app.js: swapping a candidate into the build and applying the     *)
(* answer of POST /solve to state.selected.                                *)
(***************************************************************************)
getRingTargetKey(u) == IF u.ringTargetKey \in {"ring1", "ring2"} THEN u.ringTargetKey ELSE "ring1"

\* The key a candidate of a slot goes to; "" stands for null.  swapMode and
\* swapKey are what the mode and swapKey controls hold.
resolveTargetKeyForSlot(u, slot, swapMode, swapKey) ==
  IF slot # "ring" THEN (IF slot \in LockKeys THEN slot ELSE "")
  ELSE IF swapMode /\ swapKey \in {"ring1", "ring2"} THEN swapKey
  ELSE getRingTargetKey(u)

isTargetLocked(u, targetKey) == targetKey # "" /\ u.locks[targetKey]

\* swapIntoTarget(slot, candName, explicitTargetKey): the page after the
\* call, refresh() included up to its await.
swapIntoTarget(u, slot, candName, explicitTargetKey, swapMode, swapKey) ==
  LET targetKey == IF explicitTargetKey # "" THEN explicitTargetKey
                   ELSE resolveTargetKeyForSlot(u, slot, swapMode, swapKey)
  IN IF targetKey = "" THEN u
     ELSE IF isTargetLocked(u, targetKey) THEN u
     ELSE refreshIssued(
            [u EXCEPT !.selected[targetKey] = candName,
                      !.ringTargetKey = IF slot = "ring" /\ targetKey \in {"ring1", "ring2"}
                                        THEN targetKey ELSE @])

\* gatherPayload() as POST /solve reads it, the controls other than the
\* selection and the locks at fixed values.
solvePayload(u) ==
  [ level |-> Num(2), extraPoints |-> Num(0), class |-> "", strictWeaponClass |-> Bool(TRUE),
    rarities |-> {}, minItemLevel |-> Num(0), noMythic |-> Bool(FALSE),
    noCraftedBestEffort |-> Bool(FALSE), noNegativeItemSkillBonuses |-> Bool(FALSE),
    noNegativeNetSkillBonuses |-> Bool(FALSE), mustGiveStat |-> "",
    poolCap |-> Absent, ringPoolCap |-> Absent, maxNodes |-> Num(DEFAULT_SOLVE_MAX_NODES),
    selected |-> u.selected, locks |-> u.locks, tomes |-> << >> ]

\* The found branch of POST /solve for a build.
foundAnswer(best, ctx) ==
  [ kind |-> "json", ok |-> TRUE, found |-> TRUE, truncated |-> JsUndefined,
    nodesVisited |-> JsUndefined, maxNodes |-> TheVal(ctx.maxNodes), score |-> best.score,
    items |-> itemSummaries(best.items, Len(best.items)) ]

\* The answers the page may receive to a payload.  The handler reads the
\* property best of what solveBuild returns, which a build does not have,
\* and answers found: false; the page is also given the answer of the
\* found branch for the build that solveBuild returned, which is what the
\* page is written to apply.
solveAnswers(d, body) ==
  LET ctx == solveCtx(d, body)
  IN UNION { {solveRespond(best, ctx)}
               \cup (IF Truthy(best) THEN {foundAnswer(best, ctx)} ELSE {}) :
             best \in {solveBuild(d, ctx)} }

\* bySlot[slot] after the loop over json.items: the name of the last item
\* of the slot, "" when there is none.
lastNameOfSlot(items, slot) ==
  LET hits == SelectSeq(items, LAMBDA it : it.slot = slot)
  IN IF Len(hits) = 0 THEN "" ELSE hits[Len(hits)].name

\* bySlot.rings: the names of the rings of json.items in their order.
ringNames(items) ==
  LET hits == SelectSeq(items, LAMBDA it : it.slot = "ring")
  IN [i \in 1..Len(hits) |-> hits[i].name]

\* solveBuild() of the page after its await: the items of a found build
\* are written into state.selected, then refresh() is called.
applySolution(u, json) ==
  IF json.kind # "json" THEN u
  ELSE IF ~json.found THEN u
  ELSE LET rings == ringNames(json.items)
           sel == [ key \in LockKeys |->
                      IF key = "ring1"
                      THEN (IF Len(rings) >= 1 THEN rings[1] ELSE u.selected[key])
                      ELSE IF key = "ring2"
                      THEN (IF Len(rings) >= 2 THEN rings[2] ELSE u.selected[key])
                      ELSE IF lastNameOfSlot(json.items, key) # ""
                      THEN lastNameOfSlot(json.items, key)
                      ELSE u.selected[key] ]
       IN refreshIssued([u EXCEPT !.selected = sel])

\* The calls after a handler that may have called refresh().
withRefresh(u, after) ==
  IF after.refreshSeq = u.refreshSeq THEN calls
  ELSE calls \cup {newCall("refresh", after.refreshSeq)}

\* The page shows a full build of the catalog: ring-a as ring 1, ring-b as
\* ring 2, the only item of every other slot.
swapDb == netDb(Zero5, Zero5)
swapSelected ==
  [ key \in LockKeys |->
      IF key = "ring1" THEN "ring-a" ELSE IF key = "ring2" THEN "ring-b"
      ELSE swapDb.bySlot[key][1].name ]
SwapLocks ==
  { [ key \in LockKeys |-> key \notin {"ring1", "ring2"} \/ key \in rings ] :
    rings \in SUBSET {"ring1", "ring2"} }
SwapSlots == {"helmet", "ring"}
SwapNames(slot) == { swapDb.bySlot[slot][i].name : i \in 1..Len(swapDb.bySlot[slot]) }
SwapKeys(slot) == IF slot = "ring" THEN {"", "ring1", "ring2"} ELSE {"", slot}

SwapInit ==
  /\ \E locks \in SwapLocks : ui = uiStart(swapSelected, locks)
  /\ calls = {}
  /\ sDb = swapDb
  /\ sOut = NoCall
  /\ CompatParked
  /\ LruParked
  /\ SrvParked
  /\ KeyParked
  /\ LevelParked
  /\ FilterParked

SwapFrame == UNCHANGED <<compatVars, lruVars, srvVars, keyVars, lvlVars, filterVars>>

\* A Swap button of the results, or of the compare dialog, is pressed.
SwapIntoTarget ==
  \E slot \in SwapSlots, swapMode \in BOOLEAN :
    \E candName \in SwapNames(slot), explicitTargetKey \in SwapKeys(slot),
       swapKey \in SwapKeys(slot) :
      /\ ui.refreshSeq < MaxCalls
      /\ ui' = swapIntoTarget(ui, slot, candName, explicitTargetKey, swapMode, swapKey)
      /\ calls' = withRefresh(ui, ui')
      /\ UNCHANGED solveVars
      /\ SwapFrame

\* The Solve button is pressed: the payload is gathered and sent, and the
\* server computes its answer from it.
SolveBuildClick ==
  /\ sOut = NoCall
  /\ \E res \in solveAnswers(sDb, solvePayload(ui)) :
       sOut' = [op |-> "POST /solve", body |-> solvePayload(ui), res |-> res]
  /\ calls' = calls \cup {newCall("solveBuild", 1)}
  /\ UNCHANGED <<sDb, ui>>
  /\ SwapFrame

\* The answer arrives and is applied to the page as it is by then.
SolveBuildResolves ==
  \E c \in InFlight("solveBuild") :
    /\ ui.refreshSeq < MaxCalls
    /\ ui' = applySolution(ui, sOut.res)
    /\ calls' = (withRefresh(ui, ui') \ {c}) \cup {[c EXCEPT !.settled = SettledCount(c.fn) + 1]}
    /\ UNCHANGED solveVars
    /\ SwapFrame

SwapNext == SwapIntoTarget \/ SolveBuildClick \/ SolveBuildResolves

SpecSwap == SwapInit /\ [][SwapNext]_vars

\* The answer being applied names the selection of every locked key.
LockedItemsIncluded ==
  /\ sOut.op = "POST /solve" /\ sOut.res.kind = "json" /\ sOut.res.found
  /\ \A key \in LockKeys :
       ui.locks[key] => \E i \in 1..Len(sOut.res.items) : sOut.res.items[i].name = ui.selected[key]

ApplyingNow == \E c \in calls : c.fn = "solveBuild" /\ c.settled = 0 /\ c \notin calls'

=============================================================================
